---- MODULE Spec2Model ----
(***************************************************************************)
(* A model of the quarchive browser extension: the Bookmark value object   *)
(* (merge / equals) and the full-sync orchestrator of quarchive-sync.ts.   *)
(*                                                                         *)
(* Seven specifications share the module:                                  *)
(*   SpecMerge    - applies the pure functions of the value objects to     *)
(*                  every pair of bookmarks of a small universe;           *)
(*   Spec         - the full-sync state machine: the persisted last-sync   *)
(*                  record, the stored configuration, the clock and the    *)
(*                  fullSync passes of the background page and of the      *)
(*                  options page, one step per resumption of an await;     *)
(*   SpecData     - one pass of the background page on the cache, the      *)
(*                  native store and the server's answer;                  *)
(*   SpecForced   - one forced pass of the options page on the same data;  *)
(*   SpecSession  - a session of the background page: its first pass, the  *)
(*                  user's edits and the four listeners;                   *)
(*   SpecPeriodic - the background page after its initial pass: the next   *)
(*                  pass while the listeners run;                          *)
(*   SpecClientID - the calls of getClientID of one installation.          *)
(***************************************************************************)
EXTENDS Integers, Sequences, FiniteSets, TLC

VARIABLES
    \* ---- value-object harness (SpecMerge) ----
    a,                  \* first operand  (this)
    b,                  \* second operand (other)
    op,                 \* the operation applied last
    r,                  \* its result
    \* ---- orchestrator (Spec) ----
    storage,            \* browser.storage.sync: a function on the keys present
    now,                \* the clock read by new Date()
    listenersEnabled,   \* module-level flag, one per page that loads the module
    pc,                 \* position of each page's fullSync call
    force,              \* the argument of the call
    oldStatus,          \* local of fullSync
    status,             \* local of fullSync
    cause,              \* what ended the page's last pass
    settled,            \* how the promise of the page's last call settled
    result,             \* the SyncResult the last call resolved with
    before,             \* history: what was persisted when the call was made
    alone,              \* history: no other pass ran during this one
    calls,              \* number of fullSync calls made so far
    registered,         \* per page and browser.bookmarks event: listeners added
    \* ---- cache, native store and server (SpecData) ----
    cache,              \* the IndexedDB object store "bookmarks", by idbKey
    native,             \* browser.bookmarks: the tree nodes that have a url, by id
    nextId,             \* the id the browser gives the next node it creates
    event,              \* the browser.bookmarks event waiting for its listener
    response,           \* the answer to the pass's full-sync request
    sent,               \* full-sync requests sent by the page's current pass
    thrown,             \* the exception the pass's catch block caught
    handled,            \* history: the last listener run and how it ended
    edits,              \* number of edits the user made in the browser
    posted,             \* the body of the pass's full-sync request
    \* ---- getClientID (SpecClientID) ----
    clientCalls,        \* each caller's position in getClientID and its local
    written,            \* history: the identifiers written to storage
    returned,           \* history: the identifiers the calls returned
    gets                \* number of getClientID calls made

harnessVars == <<a, b, op, r>>
syncVars == <<storage, now, listenersEnabled, pc, force,
              oldStatus, status, cause, settled, result, before, alone, calls,
              registered>>
dataVars == <<cache, native, nextId, event, response, sent, thrown, handled,
              edits, posted>>
clientVars == <<clientCalls, written, returned, gets>>
otherThanClient == <<a, b, op, r, now, listenersEnabled,
                     pc, force, oldStatus, status, cause, settled, result,
                     before, alone, calls, registered, dataVars>>
vars == <<a, b, op, r, storage, now, listenersEnabled,
          pc, force, oldStatus, status, cause, settled, result, before, alone,
          calls, registered, cache, native, nextId, event, response, sent,
          thrown, handled, edits, posted, clientCalls, written, returned,
          gets>>

----------------------------------------------------------------------------
(* Bounds *)

MaxInstant == 2     \* instants a Date of the harness may denote: 1..MaxInstant
MaxClock == 2       \* the clock runs from 1 to MaxClock
MaxCalls == 3       \* fullSync calls in one behaviour
MaxPasses == 1      \* fullSync calls of the background page with data
MaxLines == 1       \* lines in the answer to a full-sync request
MaxEdits == 1       \* edits the user makes in the browser
MaxCallers == 2     \* concurrent callers of getClientID
MaxUUIDs == 2       \* identifiers randomUUID may return
MaxGets == 5        \* getClientID calls in one behaviour
MaxNodes == 5       \* nodes created before the server stops sending two lines

----------------------------------------------------------------------------
(* Value objects *)

Null == "null"

\* A JavaScript Date is an object: t is the instant it denotes, and two Date
\* objects of the same instant are still two objects (copy tells them apart).
\* Relational operators compare the instants, !== compares the objects.
Instants == 1..MaxInstant
DateObjs == {[t |-> i, copy |-> 1] : i \in Instants} \cup {[t |-> 1, copy |-> 2]}

QuarchiveURL(scheme, netloc, path, query, fragment) ==
    [scheme |-> scheme, netloc |-> netloc, path |-> path,
     query |-> query, fragment |-> fragment]

QuarchiveURL_equals(this, other) ==
    /\ this.scheme = other.scheme
    /\ this.netloc = other.netloc
    /\ this.path = other.path
    /\ this.query = other.query
    /\ this.fragment = other.fragment

Bookmark(url, title, description, created, updated, deleted, unread, browserId) ==
    [url |-> url, title |-> title, description |-> description,
     created |-> created, updated |-> updated,
     deleted |-> deleted, unread |-> unread, browserId |-> browserId]

\* merge with the tie on updated and on lengths given to the second argument
Bookmark_merge_tieToOther(this, other) ==
    LET thisLengths == Len(this.title) + Len(this.description)
        otherLengths == Len(other.title) + Len(other.description)
        moreRecent ==
            IF this.updated.t > other.updated.t THEN this
            ELSE IF other.updated.t > this.updated.t THEN other
            ELSE IF otherLengths >= thisLengths THEN other
            ELSE this
        minCreated ==
            IF this.created.t < other.created.t THEN this.created
            ELSE other.created
        maxUpdated ==
            IF this.updated.t > other.updated.t THEN this.updated
            ELSE other.updated
    IN Bookmark(this.url, moreRecent.title, moreRecent.description,
                minCreated, maxUpdated,
                moreRecent.deleted, moreRecent.unread, moreRecent.browserId)

\* merge with created taken from the winner instead of the minimum
Bookmark_merge_createdFromWinner(this, other) ==
    LET thisLengths == Len(this.title) + Len(this.description)
        otherLengths == Len(other.title) + Len(other.description)
        moreRecent ==
            IF this.updated.t > other.updated.t THEN this
            ELSE IF other.updated.t > this.updated.t THEN other
            ELSE IF otherLengths > thisLengths THEN other
            ELSE this
        maxUpdated ==
            IF this.updated.t > other.updated.t THEN this.updated
            ELSE other.updated
    IN Bookmark(this.url, moreRecent.title, moreRecent.description,
                moreRecent.created, maxUpdated,
                moreRecent.deleted, moreRecent.unread, moreRecent.browserId)

\* merge that builds fresh Date objects for the result
Bookmark_merge_copiesDates(this, other) ==
    LET thisLengths == Len(this.title) + Len(this.description)
        otherLengths == Len(other.title) + Len(other.description)
        moreRecent ==
            IF this.updated.t > other.updated.t THEN this
            ELSE IF other.updated.t > this.updated.t THEN other
            ELSE IF otherLengths > thisLengths THEN other
            ELSE this
        minCreated ==
            IF this.created.t < other.created.t THEN this.created
            ELSE other.created
        maxUpdated ==
            IF this.updated.t > other.updated.t THEN this.updated
            ELSE other.updated
    IN Bookmark(this.url, moreRecent.title, moreRecent.description,
                [t |-> minCreated.t, copy |-> 0],
                [t |-> maxUpdated.t, copy |-> 0],
                moreRecent.deleted, moreRecent.unread, moreRecent.browserId)

\* merge without the rule on lengths: a tie on updated goes to this
Bookmark_merge_noLengthRule(this, other) ==
    LET moreRecent ==
            IF this.updated.t > other.updated.t THEN this
            ELSE IF other.updated.t > this.updated.t THEN other
            ELSE this
        minCreated ==
            IF this.created.t < other.created.t THEN this.created
            ELSE other.created
        maxUpdated ==
            IF this.updated.t > other.updated.t THEN this.updated
            ELSE other.updated
    IN Bookmark(this.url, moreRecent.title, moreRecent.description,
                minCreated, maxUpdated,
                moreRecent.deleted, moreRecent.unread, moreRecent.browserId)

\* Bookmark.merge: last writer wins on content, earliest created, latest
\* updated.  The Date objects of the result are the operands' own objects.
Bookmark_merge(this, other) ==
    LET thisLengths == Len(this.title) + Len(this.description)
        otherLengths == Len(other.title) + Len(other.description)
        moreRecent ==
            IF this.updated.t > other.updated.t THEN this
            ELSE IF other.updated.t > this.updated.t THEN other
            ELSE IF otherLengths > thisLengths THEN other
            ELSE this
        minCreated ==
            IF this.created.t < other.created.t THEN this.created
            ELSE other.created
        maxUpdated ==
            IF this.updated.t > other.updated.t THEN this.updated
            ELSE other.updated
    IN Bookmark(this.url, moreRecent.title, moreRecent.description,
                minCreated, maxUpdated,
                moreRecent.deleted, moreRecent.unread, moreRecent.browserId)

\* Bookmark.equals: url through QuarchiveURL.equals, every other field
\* through !==, which for the two Date fields is object identity.
Bookmark_equals(this, other) ==
    IF ~QuarchiveURL_equals(other.url, this.url) THEN FALSE
    ELSE /\ this.title = other.title
         /\ this.description = other.description
         /\ this.created = other.created
         /\ this.updated = other.updated
         /\ this.deleted = other.deleted
         /\ this.unread = other.unread
         /\ this.browserId = other.browserId

----------------------------------------------------------------------------
(* The harness: every pair of bookmarks of a small universe *)

Urls == {QuarchiveURL("http", "example.com", "/", "", ""),
         QuarchiveURL("http", "example.com", "/b", "", "")}
Titles == {"x", "y"}
Descriptions == {"", "d"}
\* (deleted, unread, browserId): a base value and one variant per field
Flags == {<<FALSE, FALSE, Null>>, <<TRUE, FALSE, Null>>,
          <<FALSE, TRUE, Null>>, <<FALSE, FALSE, "n1">>}

Bookmarks ==
    {Bookmark(u, ti, de, c, up, f[1], f[2], f[3]) :
        u \in Urls, ti \in Titles, de \in Descriptions,
        c \in DateObjs, up \in DateObjs, f \in Flags}

NoResult == "none"

HarnessInit ==
    /\ a \in Bookmarks
    /\ b \in Bookmarks
    /\ op = "none"
    /\ r = NoResult

\* a.merge(b)
Merge ==
    /\ op = "none"
    /\ op' = "merge"
    /\ r' = Bookmark_merge(a, b)
    /\ UNCHANGED <<a, b>>

\* a.merge(b) and b.merge(a)
MergeBothWays ==
    /\ op = "none"
    /\ op' = "mergeBothWays"
    /\ r' = <<Bookmark_merge(a, b), Bookmark_merge(b, a)>>
    /\ UNCHANGED <<a, b>>

\* a.merge(a).equals(a)
MergeSelf ==
    /\ op = "none"
    /\ op' = "mergeSelf"
    /\ r' = Bookmark_equals(Bookmark_merge(a, a), a)
    /\ UNCHANGED <<a, b>>

\* a.equals(b)
Equals ==
    /\ op = "none"
    /\ op' = "equals"
    /\ r' = Bookmark_equals(a, b)
    /\ UNCHANGED <<a, b>>

----------------------------------------------------------------------------
(* browser.storage.sync and the persisted last-full-sync record *)

Never == "NEVER"
InProgress == "IN_PROGRESS"
Successful == "SUCCESSFUL"
Failed == "FAILED"
SyncStatus == {Never, InProgress, Successful, Failed}

\* new Date("1970-01-01T00:00:00Z")
Epoch == 0

SyncResult(s, at) == [status |-> s, at |-> at]

\* Date.prototype.toJSON and new Date(string): the stored form of an instant
\* is its ISO string, not the instant.
Date_toJSON(t) == <<"ISO-8601", t>>
Date_parse(iso) == iso[2]

EmptyStorage == [k \in {} |-> Null]

\* browser.storage.sync.set(keyMap)
StorageSet(st, keyMap) ==
    [k \in (DOMAIN st) \cup (DOMAIN keyMap) |->
        IF k \in DOMAIN keyMap THEN keyMap[k] ELSE st[k]]

\* browser.storage.sync.get(key): an object holding the key when it is stored
StorageGet(st, key) == [k \in {key} \cap (DOMAIN st) |-> st[k]]

setLastFullSyncResult(st, res) ==
    LET storable == [status |-> res.status, at |-> Date_toJSON(res.at)]
    IN StorageSet(st, [k \in {"lastFullSyncResult"} |-> storable])

getLastFullSyncResult(st) ==
    LET rv == StorageGet(st, "lastFullSyncResult")
    IN IF "lastFullSyncResult" \notin DOMAIN rv
       THEN SyncResult(Never, Epoch)
       ELSE LET stored == rv["lastFullSyncResult"]
            IN SyncResult(stored.status, Date_parse(stored.at))

\* getHTTPConfig throws NoConfigurationError when one of the three keys is
\* not stored
ConfigKeys == {"APIURL", "username", "APIKey"}
HasConfiguration(st) == ConfigKeys \subseteq DOMAIN st

NoConfigurationError == "NoConfigurationError"
OtherError == "Error"
Errors == {NoConfigurationError, OtherError}

----------------------------------------------------------------------------
(* fullSync *)

\* The pages that load quarchive-sync.js: the background page (main and the
\* periodic alarm) and the options page (saveOptions and forceFullSync).
Pages == {"background", "options"}

Busy(p) == pc[p] \notin {"idle", "saved"}

\* a catch block that only logs
CatchPersist_onlyLogs(st, e, old, t) == st

\* a catch block that records every exception as a failure
CatchPersist_alwaysFailed(st, e, old, t) ==
    setLastFullSyncResult(st, SyncResult(Failed, t))

\* what the catch block of fullSync persists
CatchPersist(st, e, old, t) ==
    IF e = NoConfigurationError
    THEN setLastFullSyncResult(st, old)
    ELSE setLastFullSyncResult(st, SyncResult(Failed, t))

\* the value of the local `status` after the catch block
CatchStatus(e, local, t) ==
    IF e = NoConfigurationError THEN local ELSE SyncResult(Failed, t)

\* what the skip branch persists: `status = oldStatus` is an assignment to
\* the local only
SkipPersist(st, old) == st

\* the record written at the start of a pass
StartStatus(t) == SyncResult(InProgress, t)

\* a start of pass that persists nothing
StartPersist_omitted(st, t) == st

\* setLastFullSyncResult(status) at the start of a pass
StartPersist(st, t) == setLastFullSyncResult(st, StartStatus(t))

\* the record written at the end of a pass that met no error
EndStatus(t) == SyncResult(Successful, t)

\* the browser.bookmarks events the module has a listener for
Handlers == {"onChanged", "onCreated", "onMoved", "onRemoved"}

\* a finally block that leaves the listeners as they are
enableListeners_omitted(p) == listenersEnabled

\* enableListeners / disableListeners on the page's flag
enableListeners(p) == [listenersEnabled EXCEPT ![p] = TRUE]
disableListeners(p) == [listenersEnabled EXCEPT ![p] = FALSE]

\* an enableListeners that adds the listeners whatever the flag says
addListeners_unguarded(p) ==
    [registered EXCEPT ![p] = [h \in Handlers |-> @[h] + 1]]

\* the addListener calls of enableListeners: made when the flag is false.
\* registered[p][h] counts the listeners the page has on event h.
addListeners(p) ==
    IF ~listenersEnabled[p]
    THEN [registered EXCEPT ![p] = [h \in Handlers |-> @[h] + 1]]
    ELSE registered

\* the removeListener calls of disableListeners: made when the flag is true
removeListeners(p) ==
    IF listenersEnabled[p]
    THEN [registered EXCEPT ![p] =
             [h \in Handlers |-> IF @[h] > 0 THEN @[h] - 1 ELSE 0]]
    ELSE registered

\* finally { enableListeners(); return status }
Finally(p, c, st, local) ==
    /\ storage' = st
    /\ listenersEnabled' = enableListeners(p)
    /\ registered' = addListeners(p)
    /\ pc' = [pc EXCEPT ![p] = "idle"]
    /\ status' = [status EXCEPT ![p] = local]
    /\ result' = [result EXCEPT ![p] = local]
    /\ cause' = [cause EXCEPT ![p] = c]
    /\ settled' = [settled EXCEPT ![p] = "resolved"]
    /\ UNCHANGED <<now, force, oldStatus, before, alone, calls, harnessVars, clientVars>>

\* an exception e reaches the catch block
Throw(p, e) ==
    Finally(p,
            IF e = NoConfigurationError THEN "noConfiguration" ELSE "failed",
            CatchPersist(storage, e, oldStatus[p], now),
            CatchStatus(e, status[p], now))

\* the pass goes on to its next await
Proceed(p, next) ==
    /\ pc' = [pc EXCEPT ![p] = next]
    /\ UNCHANGED <<storage, now, listenersEnabled, force, oldStatus, status,
                   cause, settled, result, before, alone, calls, registered,
                   harnessVars, clientVars>>

\* saveOptions on the options page: the three keys are stored at once, and
\* the page then calls fullSync()
SaveOptions ==
    /\ pc["options"] = "idle"
    /\ calls < MaxCalls
    /\ storage' = StorageSet(storage,
                     [k \in ConfigKeys |-> "set"])
    /\ pc' = [pc EXCEPT !["options"] = "saved"]
    /\ UNCHANGED <<now, listenersEnabled, force, oldStatus, status, cause,
                   settled, result, before, alone, calls, registered,
                   harnessVars, clientVars>>

\* fullSync(force) is called: main, the alarm and saveOptions call it
\* unforced, forceFullSync forced.  The call reads the persisted record.
FullSync(p, f) ==
    /\ calls < MaxCalls
    /\ \/ p = "background" /\ ~f /\ pc[p] = "idle"
       \/ p = "options" /\ ~f /\ pc[p] = "saved"
       \/ p = "options" /\ f /\ pc[p] = "idle"
    /\ calls' = calls + 1
    /\ force' = [force EXCEPT ![p] = f]
    /\ oldStatus' = [oldStatus EXCEPT ![p] = getLastFullSyncResult(storage)]
    /\ before' = [before EXCEPT ![p] = getLastFullSyncResult(storage)]
    /\ alone' = [q \in Pages |->
                    IF q = p THEN \A o \in Pages \ {p} : ~Busy(o) ELSE FALSE]
    /\ pc' = [pc EXCEPT ![p] = "getLastFullSyncResult"]
    /\ cause' = [cause EXCEPT ![p] = "none"]
    /\ settled' = [settled EXCEPT ![p] = "pending"]
    /\ result' = [result EXCEPT ![p] = NoResult]
    /\ UNCHANGED <<storage, now, listenersEnabled, status, registered,
                   harnessVars, clientVars>>

\* the read of the persisted record, the one await outside the try block,
\* is rejected by the storage: the promise of fullSync is rejected
GetLastFullSyncResultRejected(p) ==
    /\ pc[p] = "getLastFullSyncResult"
    /\ pc' = [pc EXCEPT ![p] = "idle"]
    /\ cause' = [cause EXCEPT ![p] = "storageError"]
    /\ settled' = [settled EXCEPT ![p] = "rejected"]
    /\ UNCHANGED <<storage, now, listenersEnabled, force, oldStatus, status,
                   result, before, alone, calls, registered,
                   harnessVars, clientVars>>

\* status = InProgress is persisted; a forced pass goes straight to
\* syncBrowserBookmarksToLocalDb, an unforced one awaits shouldSync
SetInProgress(p) ==
    /\ pc[p] = "getLastFullSyncResult"
    /\ status' = [status EXCEPT ![p] = StartStatus(now)]
    /\ storage' = StartPersist(storage, now)
    /\ pc' = [pc EXCEPT ![p] =
                 IF force[p] THEN "syncBrowserBookmarksToLocalDb"
                 ELSE "shouldSync"]
    /\ UNCHANGED <<now, listenersEnabled, force, oldStatus, cause, settled,
                   result, before, alone, calls, registered,
                   harnessVars, clientVars>>

\* await shouldSync() resumes: no configuration, a transport error, or the
\* server's answer
ShouldSync(p) ==
    /\ pc[p] = "shouldSync"
    /\ IF ~HasConfiguration(storage)
       THEN Throw(p, NoConfigurationError)
       ELSE \/ Throw(p, OtherError)
            \/ Proceed(p, "syncBrowserBookmarksToLocalDb")
            \/ \* should_sync is false: "no need to sync yet"
               Finally(p, "skipped", SkipPersist(storage, oldStatus[p]),
                       oldStatus[p])

\* await syncBrowserBookmarksToLocalDb() resumes.  The cache, the native
\* store and the server's records are not part of this state machine: of
\* each phase it keeps whether the phase completed or threw.
SyncBrowserBookmarksToLocalDb(p) ==
    /\ pc[p] = "syncBrowserBookmarksToLocalDb"
    /\ \/ Throw(p, OtherError)
       \/ Proceed(p, "callFullSyncAPI")

\* await callFullSyncAPI(await allBookmarksFromLocalDb()) resumes; on
\* success disableListeners() runs before the first await of the loop
CallFullSyncAPI(p) ==
    /\ pc[p] = "callFullSyncAPI"
    /\ \/ Throw(p, OtherError)
       \/ /\ ~HasConfiguration(storage)
          /\ Throw(p, NoConfigurationError)
       \/ /\ HasConfiguration(storage)
          /\ pc' = [pc EXCEPT ![p] = "reconcile"]
          /\ listenersEnabled' = disableListeners(p)
          /\ registered' = removeListeners(p)
          /\ UNCHANGED <<storage, now, force, oldStatus, status, cause,
                         settled, result, before, alone, calls, harnessVars, clientVars>>

\* the loop over the server's bookmarks ends: with an exception, or with
\* status = Successful persisted
Reconcile(p) ==
    /\ pc[p] = "reconcile"
    /\ \/ Throw(p, OtherError)
       \/ Finally(p, "successful",
                  setLastFullSyncResult(storage, EndStatus(now)),
                  EndStatus(now))

\* time passes
Tick ==
    /\ now < MaxClock
    /\ now' = now + 1
    /\ UNCHANGED <<storage, listenersEnabled, pc, force, oldStatus, status,
                   cause, settled, result, before, alone, calls, registered,
                   harnessVars, clientVars>>

----------------------------------------------------------------------------
(* URLs and the JSON forms of a bookmark *)

DisallowedSchemeError == "DisallowedSchemeError"
TypeError == "TypeError"
SyntaxError == "SyntaxError"

\* the outcome of an evaluation that threw e
Raise(e) == [error |-> e]
Raised(x) == "error" \in DOMAIN x

SCHEME_WHITELIST == {"http", "https"}

\* the URL strings of the universe: two pages of one site, and an FTP URL
UrlStrings == {"http://example.com/", "http://example.com/b",
               "ftp://example.com/"}

\* new URL(url_string) of the WHATWG URL API, on the strings of the universe
js_url(url_string) ==
    CASE url_string = "http://example.com/" ->
            [protocol |-> "http:", username |-> "", password |-> "",
             host |-> "example.com", pathname |-> "/", search |-> "",
             hash |-> ""]
      [] url_string = "http://example.com/b" ->
            [protocol |-> "http:", username |-> "", password |-> "",
             host |-> "example.com", pathname |-> "/b", search |-> "",
             hash |-> ""]
      [] url_string = "ftp://example.com/" ->
            [protocol |-> "ftp:", username |-> "", password |-> "",
             host |-> "example.com", pathname |-> "/", search |-> "",
             hash |-> ""]

\* String.prototype.substr(1)
substr1(s) == SubSeq(s, 2, Len(s))

\* a QuarchiveURL constructor that takes any scheme
QuarchiveURL_constructor_anyScheme(url_string) ==
    LET u == js_url(url_string)
        scheme == SubSeq(u.protocol, 1, Len(u.protocol) - 1)
        netloc ==
            IF u.username # "" /\ u.password # ""
            THEN u.username \o ":" \o u.password \o "@" \o u.host
            ELSE IF u.username # "" THEN u.username \o "@" \o u.host
            ELSE u.host
    IN QuarchiveURL(scheme, netloc, u.pathname, substr1(u.search),
                    substr1(u.hash))

\* new QuarchiveURL(url_string): the parts of the URL, or DisallowedSchemeError
QuarchiveURL_constructor(url_string) ==
    LET u == js_url(url_string)
        scheme == SubSeq(u.protocol, 1, Len(u.protocol) - 1)
        netloc ==
            IF u.username # "" /\ u.password # ""
            THEN u.username \o ":" \o u.password \o "@" \o u.host
            ELSE IF u.username # "" THEN u.username \o "@" \o u.host
            ELSE u.host
    IN IF scheme \notin SCHEME_WHITELIST
       THEN Raise(DisallowedSchemeError)
       ELSE QuarchiveURL(scheme, netloc, u.pathname, substr1(u.search),
                         substr1(u.hash))

QuarchiveURL_toString(url) ==
    url.scheme \o "://" \o url.netloc \o url.path
        \o (IF url.query # "" THEN "?" \o url.query ELSE "")
        \o (IF url.fragment # "" THEN "#" \o url.fragment ELSE "")

\* new Date(x): a fresh Date object; copy names the object
Date_new(t, copy) == [t |-> t, copy |-> copy]

\* Bookmark.to_json: the wire form carries no browserId
Bookmark_to_json(bm) ==
    [created |-> Date_toJSON(bm.created.t),
     deleted |-> bm.deleted,
     description |-> bm.description,
     title |-> bm.title,
     unread |-> bm.unread,
     updated |-> Date_toJSON(bm.updated.t),
     url |-> QuarchiveURL_toString(bm.url)]

\* Bookmark.to_db_json: the stored form adds browserId and the key
Bookmark_to_db_json(bm) ==
    [created |-> Date_toJSON(bm.created.t),
     deleted |-> bm.deleted,
     description |-> bm.description,
     title |-> bm.title,
     unread |-> bm.unread,
     updated |-> Date_toJSON(bm.updated.t),
     url |-> QuarchiveURL_toString(bm.url),
     browserId |-> bm.browserId,
     idbKey |-> QuarchiveURL_toString(bm.url)]

\* Bookmark.from_json: browserId is null when the object has none; the
\* QuarchiveURL constructor may throw; the two Dates are fresh objects.
\* A JSON object without a url makes new URL(undefined) throw a TypeError.
Bookmark_from_json(json, copy) ==
    IF "url" \notin DOMAIN json THEN Raise(TypeError)
    ELSE LET url == QuarchiveURL_constructor(json.url)
             browserId == IF "browserId" \in DOMAIN json
                          THEN json.browserId ELSE Null
         IN IF Raised(url) THEN url
            ELSE Bookmark(url, json.title, json.description,
                          Date_new(Date_parse(json.created), copy),
                          Date_new(Date_parse(json.updated), copy),
                          json.deleted, json.unread, browserId)

\* one line of an ndjson body: JSON.stringify(value), or text that is not JSON
JSON_stringify(value) == [syntax |-> "json", value |-> value]
NotJSON == [syntax |-> "html"]
JSON_parse(line) ==
    IF line.syntax = "json" THEN line.value ELSE Raise(SyntaxError)

----------------------------------------------------------------------------
(* The cache: the IndexedDB object store "bookmarks", keyed by idbKey, with *)
(* a unique index on browserId                                             *)

EmptyCache == [k \in {} |-> Null]

\* the helpers call reject() without an argument
Undefined == "undefined"

\* createIndex("browserId", "browserId", {unique: true}): a record whose
\* browserId is null has no entry in the index
IndexConflict(c, json) ==
    /\ json.browserId # Null
    /\ \E k \in DOMAIN c : k # json.idbKey /\ c[k].browserId = json.browserId

\* a store that holds the record written last and nothing else
Stored_aloneInStore(c, json) == [k \in {json.idbKey} |-> json]

Stored(c, json) ==
    [k \in (DOMAIN c) \cup {json.idbKey} |->
        IF k = json.idbKey THEN json ELSE c[k]]

\* objectStore.add(bookmark.to_db_json())
insertBookmarkIntoLocalDb(c, bm) ==
    LET json == Bookmark_to_db_json(bm)
    IN IF json.idbKey \in DOMAIN c \/ IndexConflict(c, json)
       THEN Raise(Undefined)
       ELSE [cache |-> Stored(c, json)]

\* a put that resolves without storing the record
updateBookmarkInLocalDb_notStored(c, bm) == [cache |-> c]

\* objectStore.put(bookmark.to_db_json())
updateBookmarkInLocalDb(c, bm) ==
    LET json == Bookmark_to_db_json(bm)
    IN IF IndexConflict(c, json)
       THEN Raise(Undefined)
       ELSE [cache |-> Stored(c, json)]

\* the lookups resolve to null or to one bookmark: here the set of results
lookupBookmarkFromLocalDbByUrl(c, url) ==
    {Bookmark_from_json(c[k], 1) :
        k \in (DOMAIN c) \cap {QuarchiveURL_toString(url)}}

lookupBookmarkFromLocalDbByBrowserId(c, browserId) ==
    {Bookmark_from_json(c[k], 1) :
        k \in {i \in DOMAIN c : c[i].browserId = browserId}}

allBookmarksFromLocalDb(c) == {Bookmark_from_json(c[k], 1) : k \in DOMAIN c}

----------------------------------------------------------------------------
(* The native store: browser.bookmarks                                     *)

EmptyNative == [i \in {} |-> Null]

\* browser.bookmarks.create(argument): the browser gives the node its id
\* and its dateAdded
browser_bookmarks_create(n, id, argument, t) ==
    [i \in (DOMAIN n) \cup {id} |->
        IF i = id
        THEN [url |-> argument.url, title |-> argument.title, dateAdded |-> t]
        ELSE n[i]]

\* browser.bookmarks.update(id, argument) is rejected when no node has the id
browser_bookmarks_update(n, id, argument) ==
    IF id \notin DOMAIN n
    THEN Raise(OtherError)
    ELSE [native |-> [n EXCEPT ![id] = [@ EXCEPT !.url = argument.url,
                                                !.title = argument.title]]]

\* an upsert that does not look at the deleted flag
upsertBookmarkIntoBrowser_deletedToo(n, nid, bm, t) ==
    LET argument == [url |-> QuarchiveURL_toString(bm.url),
                     title |-> bm.title]
    IN IF bm.browserId = Null
       THEN [native |-> browser_bookmarks_create(n, ToString(nid), argument, t),
             nextId |-> nid + 1]
       ELSE LET u == browser_bookmarks_update(n, bm.browserId, argument)
            IN IF Raised(u) THEN u
               ELSE [native |-> u.native, nextId |-> nid]

upsertBookmarkIntoBrowser(n, nid, bm, t) ==
    LET argument == [url |-> QuarchiveURL_toString(bm.url),
                     title |-> bm.title]
    IN IF bm.deleted THEN [native |-> n, nextId |-> nid]
       ELSE IF bm.browserId = Null
       THEN [native |-> browser_bookmarks_create(n, ToString(nid), argument, t),
             nextId |-> nid + 1]
       ELSE LET u == browser_bookmarks_update(n, bm.browserId, argument)
            IN IF Raised(u) THEN u
               ELSE [native |-> u.native, nextId |-> nid]

----------------------------------------------------------------------------
(* The three phases of a pass, on the cache and the native store           *)

NoError == "none"

\* a walk that merges a bookmark built from the tree node, stamped with the
\* current time, into the record it finds
RECURSIVE syncBrowserBookmarksToLocalDb_merges(_, _, _)
syncBrowserBookmarksToLocalDb_merges(c, n, treeNodes) ==
    IF treeNodes = <<>> THEN [cache |-> c, threw |-> NoError]
    ELSE
      LET treeNode == n[Head(treeNodes)]
          url == QuarchiveURL_constructor(treeNode.url)
      IN
      IF Raised(url)
      THEN IF url.error = DisallowedSchemeError
           THEN syncBrowserBookmarksToLocalDb_merges(c, n, Tail(treeNodes))
           ELSE [cache |-> c, threw |-> url.error]
      ELSE
        LET found == lookupBookmarkFromLocalDbByUrl(c, url)
        IN
        IF found = {}
        THEN LET bookmark == Bookmark(url, treeNode.title, "",
                                 Date_new(treeNode.dateAdded, 1),
                                 Date_new(treeNode.dateAdded, 1),
                                 FALSE, FALSE, Head(treeNodes))
                 w == insertBookmarkIntoLocalDb(c, bookmark)
             IN IF Raised(w) THEN [cache |-> c, threw |-> w.error]
                ELSE syncBrowserBookmarksToLocalDb_merges(w.cache, n, Tail(treeNodes))
        ELSE LET localBookmark == CHOOSE x \in found : TRUE
                 refreshed == Bookmark_merge(
                                  Bookmark(url, treeNode.title, "",
                                           Date_new(now, 1), Date_new(now, 1),
                                           FALSE, FALSE, Head(treeNodes)),
                                  localBookmark)
                 dbOutOfDate == refreshed # localBookmark
                 w == updateBookmarkInLocalDb(c, refreshed)
             IN IF ~dbOutOfDate
                THEN syncBrowserBookmarksToLocalDb_merges(c, n, Tail(treeNodes))
                ELSE IF Raised(w) THEN [cache |-> c, threw |-> w.error]
                ELSE syncBrowserBookmarksToLocalDb_merges(w.cache, n, Tail(treeNodes))

\* the loop of syncBrowserBookmarksToLocalDb over treeNodes, a sequence of
\* node ids: the cache it leaves and the exception that ended it, if any
RECURSIVE syncBrowserBookmarksToLocalDb(_, _, _)
syncBrowserBookmarksToLocalDb(c, n, treeNodes) ==
    IF treeNodes = <<>> THEN [cache |-> c, threw |-> NoError]
    ELSE
      LET treeNode == n[Head(treeNodes)]
          url == QuarchiveURL_constructor(treeNode.url)
      IN
      IF Raised(url)
      THEN IF url.error = DisallowedSchemeError
           THEN syncBrowserBookmarksToLocalDb(c, n, Tail(treeNodes))
           ELSE [cache |-> c, threw |-> url.error]
      ELSE
        LET found == lookupBookmarkFromLocalDbByUrl(c, url)
        IN
        IF found = {}
        THEN LET bookmark == Bookmark(url, treeNode.title, "",
                                 Date_new(treeNode.dateAdded, 1),
                                 Date_new(treeNode.dateAdded, 1),
                                 FALSE, FALSE, Head(treeNodes))
                 w == insertBookmarkIntoLocalDb(c, bookmark)
             IN IF Raised(w) THEN [cache |-> c, threw |-> w.error]
                ELSE syncBrowserBookmarksToLocalDb(w.cache, n, Tail(treeNodes))
        ELSE LET localBookmark == CHOOSE x \in found : TRUE
                 refreshed == [localBookmark EXCEPT
                                  !.browserId = Head(treeNodes),
                                  !.title = treeNode.title]
                 dbOutOfDate == refreshed # localBookmark
                 w == updateBookmarkInLocalDb(c, refreshed)
             IN IF ~dbOutOfDate
                THEN syncBrowserBookmarksToLocalDb(c, n, Tail(treeNodes))
                ELSE IF Raised(w) THEN [cache |-> c, threw |-> w.error]
                ELSE syncBrowserBookmarksToLocalDb(w.cache, n, Tail(treeNodes))

\* the loop of callFullSyncAPI over the lines of the response: the bookmarks
\* it returns, or the exception JSON.parse or Bookmark.from_json threw
RECURSIVE parseLines(_)
parseLines(jsonlines) ==
    IF jsonlines = <<>> THEN [bookmarks |-> <<>>]
    ELSE LET jsonData == JSON_parse(Head(jsonlines))
         IN IF Raised(jsonData) THEN jsonData
            ELSE LET bookmark == Bookmark_from_json(jsonData, 2)
                     rest == parseLines(Tail(jsonlines))
                 IN IF Raised(bookmark) THEN bookmark
                    ELSE IF Raised(rest) THEN rest
                    ELSE [bookmarks |-> <<bookmark>> \o rest.bookmarks]

\* what the server side of a request can do: fetch is rejected, or a
\* response arrives with a status and a body of lines
NetworkError == [kind |-> "network error"]
HTTPResponse(ok, body) == [kind |-> "http", ok |-> ok, body |-> body]
NoResponse == [kind |-> "none"]

\* the body of the full-sync request: one line per bookmark it is given, in
\* the order of the keys of the store (here: the set of the lines)
NoBody == {}

\* a request that carries the records as the cache stores them, with
\* browserId and idbKey
FullSyncBody_asStored(bookmarks) ==
    {JSON_stringify(Bookmark_to_db_json(bm)) : bm \in bookmarks}

FullSyncBody(bookmarks) ==
    {JSON_stringify(Bookmark_to_json(bm)) : bm \in bookmarks}

\* callFullSyncAPI once the configuration is read: response.ok is not looked at
callFullSyncAPI(resp) ==
    IF resp.kind = "network error" THEN Raise(TypeError)
    ELSE parseLines(resp.body)

\* the loop of fullSync over bookmarksFromServer: what it leaves and the
\* exception that ended it, if any
RECURSIVE serverToCacheToNative(_, _, _, _, _)
serverToCacheToNative(c, n, nid, bookmarksFromServer, t) ==
    IF bookmarksFromServer = <<>>
    THEN [cache |-> c, native |-> n, nextId |-> nid, threw |-> NoError]
    ELSE
      LET serverBookmark == Head(bookmarksFromServer)
          found == lookupBookmarkFromLocalDbByUrl(c, serverBookmark.url)
          localBookmark == CHOOSE x \in found : TRUE
          mergedBookmark ==
              [Bookmark_merge(localBookmark, serverBookmark) EXCEPT
                  !.browserId = localBookmark.browserId]
          toWrite == IF found = {} THEN serverBookmark ELSE mergedBookmark
          w == IF found = {} THEN insertBookmarkIntoLocalDb(c, toWrite)
               ELSE updateBookmarkInLocalDb(c, toWrite)
          u == upsertBookmarkIntoBrowser(n, nid, toWrite, t)
      IN
      IF found # {} /\ Bookmark_equals(mergedBookmark, localBookmark)
      THEN serverToCacheToNative(c, n, nid, Tail(bookmarksFromServer), t)
      ELSE IF Raised(w)
      THEN [cache |-> c, native |-> n, nextId |-> nid, threw |-> w.error]
      ELSE IF Raised(u)
      THEN [cache |-> w.cache, native |-> n, nextId |-> nid,
            threw |-> u.error]
      ELSE serverToCacheToNative(w.cache, u.native, u.nextId,
                                 Tail(bookmarksFromServer), t)

----------------------------------------------------------------------------
(* The pass of the background page on the cache, the native store and the  *)
(* server                                                                  *)

\* what the server may hold: the first page in every state, created and
\* updated at any instant, live or deleted, and a bookmark of the FTP URL
ServerJsons ==
    {[created |-> Date_toJSON(c), deleted |-> d, description |-> "d",
      title |-> "s", unread |-> TRUE, updated |-> Date_toJSON(u),
      url |-> "http://example.com/"] :
        c \in 0..MaxClock, d \in BOOLEAN, u \in 1..MaxClock}
    \cup {[created |-> Date_toJSON(1), deleted |-> FALSE,
           description |-> "d", title |-> "s", unread |-> TRUE,
           updated |-> Date_toJSON(1), url |-> "ftp://example.com/"]}

\* the body of an error page that is JSON: an object that is no bookmark
ErrorJson == [message |-> "unauthorized"]

ServerLines ==
    {JSON_stringify(j) : j \in ServerJsons} \cup {NotJSON}

RECURSIVE SeqsUpTo(_, _)
SeqsUpTo(S, n) ==
    IF n = 0 THEN {<<>>}
    ELSE LET shorter == SeqsUpTo(S, n - 1)
         IN shorter \cup {<<x>> \o s : x \in S, s \in {q \in shorter : Len(q) = n - 1}}

\* the answers to a full-sync request: 200 with lines, or an error status
\* with an empty body, an error page, an error object or a line
FullSyncResponses ==
    {NetworkError}
    \cup {HTTPResponse(TRUE, body) : body \in SeqsUpTo(ServerLines, MaxLines)}
    \cup {HTTPResponse(FALSE, body) :
            body \in {<<>>, <<NotJSON>>, <<JSON_stringify(ErrorJson)>>}}

\* the server has nothing newer about a bookmark of the request and
\* answers with the record it was sent
EchoResponses(c) ==
    {HTTPResponse(TRUE, <<JSON_stringify(Bookmark_to_json(bm))>>) :
        bm \in allBookmarksFromLocalDb(c)}

\* a permutation of the ids of the tree nodes: the order of the walk of
\* allTreeNodesFromBrowser is the order of the user's folders
Orders(ids) ==
    {o \in SeqsUpTo(ids, Cardinality(ids)) :
        Len(o) = Cardinality(ids) /\ {o[i] : i \in 1..Len(o)} = ids}

\* a call that refreshes the cache from the native store before anything else
DataFullSync_walksFirst(p) ==
    /\ calls < MaxPasses
    /\ FullSync(p, FALSE)
    /\ sent' = 0
    /\ posted' = NoBody
    /\ response' = NoResponse
    /\ thrown' = NoError
    /\ \E treeNodes \in Orders(DOMAIN native) :
          cache' = syncBrowserBookmarksToLocalDb(cache, native, treeNodes).cache
    /\ UNCHANGED <<native, nextId, event, handled, edits>>

\* the background page calls fullSync(): main and the periodic alarm
DataFullSync(p) ==
    /\ calls < MaxPasses
    /\ FullSync(p, FALSE)
    /\ sent' = 0
    /\ posted' = NoBody
    /\ response' = NoResponse
    /\ thrown' = NoError
    /\ UNCHANGED <<cache, native, nextId, event, handled, edits>>

\* the force-sync button of the options page: forceFullSync opens the
\* database the background page uses and calls fullSync(true)
DataForceFullSync(p) ==
    /\ calls < MaxPasses
    /\ FullSync(p, TRUE)
    /\ sent' = 0
    /\ posted' = NoBody
    /\ response' = NoResponse
    /\ thrown' = NoError
    /\ UNCHANGED <<cache, native, nextId, event, handled, edits>>

\* await syncBrowserBookmarksToLocalDb() resumes
DataSyncBrowserBookmarksToLocalDb(p) ==
    /\ pc[p] = "syncBrowserBookmarksToLocalDb"
    /\ \E treeNodes \in Orders(DOMAIN native) :
          LET done == syncBrowserBookmarksToLocalDb(cache, native, treeNodes)
          IN /\ cache' = done.cache
             /\ thrown' = done.threw
             /\ IF done.threw # NoError
                THEN Throw(p, done.threw)
                ELSE Proceed(p, "callFullSyncAPI")
    /\ UNCHANGED <<native, nextId, event, response, sent, posted, handled, edits>>

\* await callFullSyncAPI(await allBookmarksFromLocalDb()) resumes: without
\* configuration no request is made; otherwise one request is sent and its
\* answer parsed.  On success disableListeners() runs before the loop.
DataCallFullSyncAPI(p) ==
    /\ pc[p] = "callFullSyncAPI"
    /\ IF ~HasConfiguration(storage)
       THEN /\ Throw(p, NoConfigurationError)
            /\ thrown' = NoConfigurationError
            /\ UNCHANGED <<response, sent, posted>>
       ELSE \E resp \in FullSyncResponses \cup EchoResponses(cache) :
               LET got == callFullSyncAPI(resp)
               IN /\ sent' = sent + 1
                  /\ posted' = FullSyncBody(allBookmarksFromLocalDb(cache))
                  /\ response' = resp
                  /\ IF Raised(got)
                     THEN /\ Throw(p, got.error)
                          /\ thrown' = got.error
                     ELSE /\ pc' = [pc EXCEPT ![p] = "reconcile"]
                          /\ listenersEnabled' = disableListeners(p)
                          /\ registered' = removeListeners(p)
                          /\ thrown' = NoError
                          /\ UNCHANGED <<storage, now, force, oldStatus,
                                         status, cause, settled, result,
                                         before, alone, calls, harnessVars, clientVars>>
    /\ UNCHANGED <<cache, native, nextId, event, handled, edits>>

\* the loop over bookmarksFromServer ends: with an exception, or with
\* status = Successful persisted
DataReconcile(p) ==
    /\ pc[p] = "reconcile"
    /\ LET bookmarksFromServer == callFullSyncAPI(response).bookmarks
           done == serverToCacheToNative(cache, native, nextId,
                                         bookmarksFromServer, now)
       IN /\ cache' = done.cache
          /\ native' = done.native
          /\ nextId' = done.nextId
          /\ thrown' = done.threw
          /\ IF done.threw # NoError
             THEN Throw(p, done.threw)
             ELSE Finally(p, "successful",
                          setLastFullSyncResult(storage, EndStatus(now)),
                          EndStatus(now))
    /\ UNCHANGED <<event, response, sent, posted, handled, edits>>

----------------------------------------------------------------------------
(* The user's edits in the browser and the four listeners                  *)

NoEvent == [type |-> "none", id |-> Null]

\* the browser calls the listener the background page has on the event
Fire(type, id) ==
    IF registered["background"][type] > 0
    THEN [type |-> type, id |-> id]
    ELSE NoEvent

\* no listener has run yet
NoHandler ==
    [handler |-> "none", browserId |-> Null, stage |-> "none",
     threw |-> NoError, requests |-> <<>>, pushed |-> <<>>,
     response |-> NoResponse]

\* a listener that ended before it called callSyncAPI
Ended(handler, browserId, stage, e) ==
    [handler |-> handler, browserId |-> browserId, stage |-> stage,
     threw |-> e, requests |-> <<>>, pushed |-> <<>>,
     response |-> NoResponse]

\* a callSyncAPI that returns [] whether or not the configuration is stored
Pushed_notSent(handler, browserId, st, bookmark) ==
    [handler |-> handler, browserId |-> browserId,
     stage |-> "resolved", threw |-> NoError, requests |-> <<>>,
     pushed |-> <<Bookmark_to_json(bookmark)>>,
     response |-> NoResponse]

\* callSyncAPI(bookmark) up to its fetch: without configuration it returns
\* [] and the listener ends; otherwise the request is sent
Pushed(handler, browserId, st, bookmark) ==
    LET sync_body == JSON_stringify(Bookmark_to_json(bookmark))
    IN IF ~HasConfiguration(st)
       THEN [handler |-> handler, browserId |-> browserId,
             stage |-> "resolved", threw |-> NoError, requests |-> <<>>,
             pushed |-> <<Bookmark_to_json(bookmark)>>,
             response |-> NoResponse]
       ELSE [handler |-> handler, browserId |-> browserId,
             stage |-> "awaiting", threw |-> NoError,
             requests |-> <<[path |-> "/api/sync", body |-> <<sync_body>>]>>,
             pushed |-> <<Bookmark_to_json(bookmark)>>,
             response |-> NoResponse]

UserIdle == event = NoEvent /\ handled.stage # "awaiting"

\* the user bookmarks a page
UserCreates(url, title) ==
    /\ UserIdle
    /\ edits < MaxEdits
    /\ edits' = edits + 1
    /\ native' = browser_bookmarks_create(native, ToString(nextId),
                     [url |-> url, title |-> title], now)
    /\ nextId' = nextId + 1
    /\ event' = Fire("onCreated", ToString(nextId))
    /\ UNCHANGED <<cache, response, sent, posted, thrown, handled, syncVars,
                   harnessVars, clientVars>>

\* the user edits the title or the URL of a bookmark
UserChanges(id, url, title) ==
    /\ UserIdle
    /\ edits < MaxEdits
    /\ id \in DOMAIN native
    /\ <<url, title>> # <<native[id].url, native[id].title>>
    /\ edits' = edits + 1
    /\ native' = [native EXCEPT ![id] = [@ EXCEPT !.url = url,
                                                  !.title = title]]
    /\ event' = Fire("onChanged", id)
    /\ UNCHANGED <<cache, nextId, response, sent, posted, thrown, handled, syncVars,
                   harnessVars, clientVars>>

\* the user deletes a bookmark
UserRemoves(id) ==
    /\ UserIdle
    /\ edits < MaxEdits
    /\ id \in DOMAIN native
    /\ edits' = edits + 1
    /\ native' = [i \in (DOMAIN native) \ {id} |-> native[i]]
    /\ event' = Fire("onRemoved", id)
    /\ UNCHANGED <<cache, nextId, response, sent, posted, thrown, handled, syncVars,
                   harnessVars, clientVars>>

\* the user moves a bookmark to another folder
UserMoves(id) ==
    /\ UserIdle
    /\ edits < MaxEdits
    /\ id \in DOMAIN native
    /\ edits' = edits + 1
    /\ event' = Fire("onMoved", id)
    /\ UNCHANGED <<cache, native, nextId, response, sent, posted, thrown, handled,
                   syncVars, harnessVars, clientVars>>

\* a createdListener that puts the new bookmark over the record it finds
CreatedListener_overwrites ==
    /\ event.type = "onCreated"
    /\ handled.stage # "awaiting"
    /\ event' = NoEvent
    /\ LET browserId == event.id
           treeNode == native[browserId]
           url == QuarchiveURL_constructor(treeNode.url)
           fresh == Bookmark(url, treeNode.title, "",
                             Date_new(treeNode.dateAdded, 3),
                             Date_new(treeNode.dateAdded, 3),
                             FALSE, FALSE, browserId)
           found == lookupBookmarkFromLocalDbByUrl(cache, url)
           bookmark == fresh
           w == IF found = {} THEN insertBookmarkIntoLocalDb(cache, bookmark)
                ELSE updateBookmarkInLocalDb(cache, bookmark)
       IN IF browserId \notin DOMAIN native
          THEN /\ handled' = Ended("createdListener", browserId, "rejected",
                                   OtherError)
               /\ UNCHANGED cache
          ELSE IF Raised(url)
          THEN /\ handled' = Ended("createdListener", browserId,
                                   IF url.error = DisallowedSchemeError
                                   THEN "resolved" ELSE "rejected",
                                   url.error)
               /\ UNCHANGED cache
          ELSE IF Raised(w)
          THEN /\ handled' = Ended("createdListener", browserId, "rejected",
                                   w.error)
               /\ UNCHANGED cache
          ELSE /\ handled' = Pushed("createdListener", browserId, storage,
                                    bookmark)
               /\ cache' = w.cache
    /\ UNCHANGED <<native, nextId, response, sent, posted, thrown, edits, syncVars,
                   harnessVars, clientVars>>

\* createdListener up to the fetch of callSyncAPI
CreatedListener ==
    /\ event.type = "onCreated"
    /\ handled.stage # "awaiting"
    /\ event' = NoEvent
    /\ LET browserId == event.id
           treeNode == native[browserId]
           url == QuarchiveURL_constructor(treeNode.url)
           fresh == Bookmark(url, treeNode.title, "",
                             Date_new(treeNode.dateAdded, 3),
                             Date_new(treeNode.dateAdded, 3),
                             FALSE, FALSE, browserId)
           found == lookupBookmarkFromLocalDbByUrl(cache, url)
           bookmark == IF found = {} THEN fresh
                       ELSE Bookmark_merge(fresh, CHOOSE x \in found : TRUE)
           w == IF found = {} THEN insertBookmarkIntoLocalDb(cache, bookmark)
                ELSE updateBookmarkInLocalDb(cache, bookmark)
       IN IF browserId \notin DOMAIN native
          THEN /\ handled' = Ended("createdListener", browserId, "rejected",
                                   OtherError)
               /\ UNCHANGED cache
          ELSE IF Raised(url)
          THEN /\ handled' = Ended("createdListener", browserId,
                                   IF url.error = DisallowedSchemeError
                                   THEN "resolved" ELSE "rejected",
                                   url.error)
               /\ UNCHANGED cache
          ELSE IF Raised(w)
          THEN /\ handled' = Ended("createdListener", browserId, "rejected",
                                   w.error)
               /\ UNCHANGED cache
          ELSE /\ handled' = Pushed("createdListener", browserId, storage,
                                    bookmark)
               /\ cache' = w.cache
    /\ UNCHANGED <<native, nextId, response, sent, posted, thrown, edits, syncVars,
                   harnessVars, clientVars>>

\* a changeListener that copies the title and leaves updated as it was
ChangeListener_keepsUpdated ==
    /\ event.type = "onChanged"
    /\ handled.stage # "awaiting"
    /\ event' = NoEvent
    /\ LET browserId == event.id
           treeNode == native[browserId]
           found == lookupBookmarkFromLocalDbByBrowserId(cache, browserId)
           bookmarkInDb == [(CHOOSE x \in found : TRUE) EXCEPT
                               !.title = treeNode.title]
           w == updateBookmarkInLocalDb(cache, bookmarkInDb)
       IN IF browserId \notin DOMAIN native
          THEN /\ handled' = Ended("changeListener", browserId, "rejected",
                                   OtherError)
               /\ UNCHANGED cache
          ELSE IF found = {}
          THEN /\ handled' = Ended("changeListener", browserId, "rejected",
                                   TypeError)
               /\ UNCHANGED cache
          ELSE IF Raised(w)
          THEN /\ handled' = Ended("changeListener", browserId, "rejected",
                                   w.error)
               /\ UNCHANGED cache
          ELSE /\ handled' = Pushed("changeListener", browserId, storage,
                                    bookmarkInDb)
               /\ cache' = w.cache
    /\ UNCHANGED <<native, nextId, response, sent, posted, thrown, edits, syncVars,
                   harnessVars, clientVars>>

\* changeListener up to the fetch of callSyncAPI: the result of the lookup
\* by browserId is used without a test for null
ChangeListener ==
    /\ event.type = "onChanged"
    /\ handled.stage # "awaiting"
    /\ event' = NoEvent
    /\ LET browserId == event.id
           treeNode == native[browserId]
           found == lookupBookmarkFromLocalDbByBrowserId(cache, browserId)
           bookmarkInDb == [(CHOOSE x \in found : TRUE) EXCEPT
                               !.title = treeNode.title,
                               !.updated = Date_new(now, 3)]
           w == updateBookmarkInLocalDb(cache, bookmarkInDb)
       IN IF browserId \notin DOMAIN native
          THEN /\ handled' = Ended("changeListener", browserId, "rejected",
                                   OtherError)
               /\ UNCHANGED cache
          ELSE IF found = {}
          THEN /\ handled' = Ended("changeListener", browserId, "rejected",
                                   TypeError)
               /\ UNCHANGED cache
          ELSE IF Raised(w)
          THEN /\ handled' = Ended("changeListener", browserId, "rejected",
                                   w.error)
               /\ UNCHANGED cache
          ELSE /\ handled' = Pushed("changeListener", browserId, storage,
                                    bookmarkInDb)
               /\ cache' = w.cache
    /\ UNCHANGED <<native, nextId, response, sent, posted, thrown, edits, syncVars,
                   harnessVars, clientVars>>

\* removedListener up to the fetch of callSyncAPI: the chain ends in a
\* catch, so an exception is logged and the listener is done
RemovedListener ==
    /\ event.type = "onRemoved"
    /\ handled.stage # "awaiting"
    /\ event' = NoEvent
    /\ LET browserId == event.id
           found == lookupBookmarkFromLocalDbByBrowserId(cache, browserId)
           bookmarkFromLocalDb == [(CHOOSE x \in found : TRUE) EXCEPT
                                      !.deleted = TRUE,
                                      !.browserId = Null,
                                      !.updated = Date_new(now, 3)]
           w == updateBookmarkInLocalDb(cache, bookmarkFromLocalDb)
       IN IF found = {}
          THEN /\ handled' = Ended("removedListener", browserId, "resolved",
                                   TypeError)
               /\ UNCHANGED cache
          ELSE IF Raised(w)
          THEN /\ handled' = Ended("removedListener", browserId, "resolved",
                                   w.error)
               /\ UNCHANGED cache
          ELSE /\ handled' = Pushed("removedListener", browserId, storage,
                                    bookmarkFromLocalDb)
               /\ cache' = w.cache
    /\ UNCHANGED <<native, nextId, response, sent, posted, thrown, edits, syncVars,
                   harnessVars, clientVars>>

\* movedListener logs the event
MovedListener ==
    /\ event.type = "onMoved"
    /\ handled.stage # "awaiting"
    /\ event' = NoEvent
    /\ handled' = Ended("movedListener", event.id, "resolved", NoError)
    /\ UNCHANGED <<cache, native, nextId, response, sent, posted, thrown, edits,
                   syncVars, harnessVars, clientVars>>

\* what the server may answer to a single-record request: nothing, the
\* record as the server merged it, that record and a second line, or an
\* error page
SyncShapes == {"network error", "empty", "merged", "two", "error page"}

ServerMerged(pushed) == [pushed EXCEPT !.title = "s", !.description = "d"]

SyncResponse(shape, pushed) ==
    CASE shape = "network error" -> NetworkError
      [] shape = "empty" -> HTTPResponse(TRUE, <<>>)
      [] shape = "merged" ->
            HTTPResponse(TRUE, <<JSON_stringify(ServerMerged(pushed))>>)
      [] shape = "two" ->
            HTTPResponse(TRUE, <<JSON_stringify(ServerMerged(pushed)),
                                 JSON_stringify(pushed)>>)
      [] shape = "error page" -> HTTPResponse(FALSE, <<NotJSON>>)

\* callSyncAPI from its fetch on: response.ok is not looked at
callSyncAPI(resp) ==
    IF resp.kind = "network error" THEN Raise(TypeError)
    ELSE parseLines(resp.body)

\* the fetch of callSyncAPI resumes and the listener runs to its end: the
\* first bookmark of the answer is written when the answer has more than
\* one.  createdListener and changeListener do not await the two writes.
CallSyncAPIReturns ==
    /\ handled.stage = "awaiting"
    /\ \E shape \in SyncShapes :
          LET resp == SyncResponse(shape, handled.pushed[1])
              bookmarksMergedWithServer == callSyncAPI(resp)
              bookmarkMergedWithServer ==
                  bookmarksMergedWithServer.bookmarks[1]
              w == updateBookmarkInLocalDb(cache, bookmarkMergedWithServer)
              u == upsertBookmarkIntoBrowser(native, nextId,
                                             bookmarkMergedWithServer, now)
              awaited == handled.handler = "removedListener"
          IN /\ shape = "two" => nextId < MaxNodes
             /\ IF Raised(bookmarksMergedWithServer)
                THEN /\ handled' = [handled EXCEPT
                            !.stage = IF awaited THEN "resolved"
                                      ELSE "rejected",
                            !.threw = bookmarksMergedWithServer.error,
                            !.requests = <<>>, !.pushed = <<>>,
                            !.response = resp]
                     /\ UNCHANGED <<cache, native, nextId, event>>
                ELSE IF ~(Len(bookmarksMergedWithServer.bookmarks) > 1)
                THEN /\ handled' = [handled EXCEPT
                            !.stage = "resolved",
                            !.requests = <<>>, !.pushed = <<>>,
                            !.response = resp]
                     /\ UNCHANGED <<cache, native, nextId, event>>
                ELSE /\ handled' = [handled EXCEPT
                            !.stage = "resolved",
                            !.threw = IF Raised(w) THEN w.error
                                      ELSE IF Raised(u) THEN u.error
                                      ELSE NoError,
                            !.requests = <<>>, !.pushed = <<>>,
                            !.response = resp]
                     /\ cache' = IF Raised(w) THEN cache ELSE w.cache
                     /\ native' = IF Raised(u) \/ (awaited /\ Raised(w))
                                  THEN native ELSE u.native
                     /\ nextId' = IF Raised(u) \/ (awaited /\ Raised(w))
                                  THEN nextId ELSE u.nextId
                     /\ event' = IF Raised(u) \/ (awaited /\ Raised(w))
                                    \/ u.nextId = nextId
                                 THEN NoEvent
                                 ELSE Fire("onCreated", ToString(nextId))
    /\ UNCHANGED <<response, sent, posted, thrown, edits, syncVars,
                   harnessVars, clientVars>>

----------------------------------------------------------------------------
(* getClientID: the per-install client identifier in browser.storage.sync  *)

\* the code that calls getClientID: shouldSync, callFullSyncAPI and
\* callSyncAPI, of the background page and of the options page
Callers == 1..MaxCallers

\* what randomUUID() can return
UUIDs == {"uuid-" \o ToString(i) : i \in 1..MaxUUIDs}

NotCalling == [pc |-> "idle", clientID |-> Null]

ClientIdle ==
    /\ clientCalls = [c \in Callers |-> NotCalling]
    /\ written = <<>>
    /\ returned = {}
    /\ gets = 0

\* getClientID() is called: browser.storage.sync.get("clientID") is issued
GetClientID(c) ==
    /\ clientCalls[c].pc = "idle"
    /\ gets < MaxGets
    /\ gets' = gets + 1
    /\ clientCalls' = [clientCalls EXCEPT ![c] = [@ EXCEPT !.pc = "get"]]
    /\ UNCHANGED <<storage, written, returned>>

\* the get resumes: the identifier found is returned, or one is minted and
\* browser.storage.sync.set is issued
GetClientIDGot(c) ==
    /\ clientCalls[c].pc = "get"
    /\ LET wrappedClientID == StorageGet(storage, "clientID")
       IN IF "clientID" \in DOMAIN wrappedClientID
          THEN /\ clientCalls' = [clientCalls EXCEPT ![c] = NotCalling]
               /\ returned' = returned \cup {wrappedClientID["clientID"]}
          ELSE /\ \E uuid \in UUIDs :
                     clientCalls' = [clientCalls EXCEPT
                                        ![c] = [pc |-> "set",
                                                clientID |-> uuid]]
               /\ UNCHANGED returned
    /\ UNCHANGED <<storage, written, gets>>

\* the set resumes: the minted identifier is stored and returned
GetClientIDSet(c) ==
    /\ clientCalls[c].pc = "set"
    /\ storage' = StorageSet(storage,
                      [k \in {"clientID"} |-> clientCalls[c].clientID])
    /\ written' = Append(written, clientCalls[c].clientID)
    /\ returned' = returned \cup {clientCalls[c].clientID}
    /\ clientCalls' = [clientCalls EXCEPT ![c] = NotCalling]
    /\ UNCHANGED gets

----------------------------------------------------------------------------
(* Specifications *)

SyncInit ==
    /\ storage = EmptyStorage
    /\ now = 1
    /\ listenersEnabled = [p \in Pages |-> FALSE]
    /\ pc = [p \in Pages |-> "idle"]
    /\ force = [p \in Pages |-> FALSE]
    /\ oldStatus = [p \in Pages |-> SyncResult(Never, Epoch)]
    /\ status = [p \in Pages |-> SyncResult(Never, Epoch)]
    /\ cause = [p \in Pages |-> "none"]
    /\ settled = [p \in Pages |-> "none"]
    /\ result = [p \in Pages |-> NoResult]
    /\ before = [p \in Pages |-> SyncResult(Never, Epoch)]
    /\ alone = [p \in Pages |-> FALSE]
    /\ calls = 0
    /\ registered = [p \in Pages |-> [h \in Handlers |-> 0]]

DefaultBookmark ==
    Bookmark(QuarchiveURL("http", "example.com", "/", "", ""), "x", "",
             [t |-> 1, copy |-> 1], [t |-> 1, copy |-> 1], FALSE, FALSE, Null)

DataIdle ==
    /\ cache = EmptyCache
    /\ native = EmptyNative
    /\ nextId = 1
    /\ event = NoEvent
    /\ response = NoResponse
    /\ sent = 0
    /\ thrown = NoError
    /\ handled = NoHandler
    /\ edits = 0
    /\ posted = NoBody

Init ==
    /\ SyncInit
    /\ DataIdle
    /\ ClientIdle
    /\ a = DefaultBookmark
    /\ b = DefaultBookmark
    /\ op = "none"
    /\ r = NoResult

Next ==
    \/ SaveOptions /\ UNCHANGED dataVars
    \/ \E p \in Pages, f \in BOOLEAN : FullSync(p, f) /\ UNCHANGED dataVars
    \/ \E p \in Pages : GetLastFullSyncResultRejected(p) /\ UNCHANGED dataVars
    \/ \E p \in Pages : SetInProgress(p) /\ UNCHANGED dataVars
    \/ \E p \in Pages : ShouldSync(p) /\ UNCHANGED dataVars
    \/ \E p \in Pages : SyncBrowserBookmarksToLocalDb(p) /\ UNCHANGED dataVars
    \/ \E p \in Pages : CallFullSyncAPI(p) /\ UNCHANGED dataVars
    \/ \E p \in Pages : Reconcile(p) /\ UNCHANGED dataVars
    \/ Tick /\ UNCHANGED dataVars

Spec == Init /\ [][Next]_vars

InitMerge ==
    /\ HarnessInit
    /\ SyncInit
    /\ DataIdle
    /\ ClientIdle

NextMerge ==
    \/ Merge /\ UNCHANGED <<syncVars, dataVars, clientVars>>
    \/ MergeBothWays /\ UNCHANGED <<syncVars, dataVars, clientVars>>
    \/ MergeSelf /\ UNCHANGED <<syncVars, dataVars, clientVars>>
    \/ Equals /\ UNCHANGED <<syncVars, dataVars, clientVars>>

SpecMerge == InitMerge /\ [][NextMerge]_vars

\* The calls of getClientID of one installation, from its first use on.
NextClientID ==
    \/ \E c \in Callers : GetClientID(c) /\ UNCHANGED otherThanClient
    \/ \E c \in Callers : GetClientIDGot(c) /\ UNCHANGED otherThanClient
    \/ \E c \in Callers : GetClientIDSet(c) /\ UNCHANGED otherThanClient

SpecClientID == Init /\ [][NextClientID]_vars

\* The background page with the cache, the native store and the server.
\* The cache, the native store and the configuration outlive a session.  An
\* earlier session left a native store of up to two bookmarks and the cache
\* its native->cache reconciliation made of it (or no cache: the extension
\* was just installed); since then the user may have edited or deleted one
\* bookmark while the extension was not running.
Configured == StorageSet(EmptyStorage, [k \in ConfigKeys |-> "set"])

Stores1 ==
    {browser_bookmarks_create(EmptyNative, "1",
                              [url |-> u, title |-> "x"], 1) :
        u \in UrlStrings}
Stores2 ==
    {browser_bookmarks_create(n, "2", [url |-> u, title |-> "y"], 1) :
        n \in Stores1, u \in UrlStrings}
EarlierNatives == {EmptyNative} \cup Stores1 \cup Stores2

EarlierSynced ==
    UNION {{[native |-> n,
             cache |-> syncBrowserBookmarksToLocalDb(EmptyCache, n, o).cache] :
               o \in Orders(DOMAIN n)} : n \in EarlierNatives}

OfflineEdits(n) ==
    {n}
    \cup {[n EXCEPT ![i] = [@ EXCEPT !.url = u, !.title = t]] :
            i \in DOMAIN n, u \in UrlStrings, t \in Titles}
    \cup {[j \in (DOMAIN n) \ {i} |-> n[j]] : i \in DOMAIN n}

Earlier ==
    {[native |-> n, cache |-> EmptyCache] : n \in EarlierNatives}
    \cup UNION {{[native |-> m, cache |-> s.cache] :
                   m \in OfflineEdits(s.native)} : s \in EarlierSynced}

InitData ==
    /\ storage \in {EmptyStorage, Configured}
    /\ now = 1
    /\ listenersEnabled = [p \in Pages |-> FALSE]
    /\ pc = [p \in Pages |-> "idle"]
    /\ force = [p \in Pages |-> FALSE]
    /\ oldStatus = [p \in Pages |-> SyncResult(Never, Epoch)]
    /\ status = [p \in Pages |-> SyncResult(Never, Epoch)]
    /\ cause = [p \in Pages |-> "none"]
    /\ settled = [p \in Pages |-> "none"]
    /\ result = [p \in Pages |-> NoResult]
    /\ before = [p \in Pages |-> SyncResult(Never, Epoch)]
    /\ alone = [p \in Pages |-> FALSE]
    /\ calls = 0
    /\ registered = [p \in Pages |-> [h \in Handlers |-> 0]]
    /\ \E e \in Earlier : cache = e.cache /\ native = e.native
    /\ nextId = 3
    /\ event = NoEvent
    /\ response = NoResponse
    /\ sent = 0
    /\ thrown = NoError
    /\ handled = NoHandler
    /\ edits = 0
    /\ posted = NoBody
    /\ ClientIdle
    /\ a = DefaultBookmark
    /\ b = DefaultBookmark
    /\ op = "none"
    /\ r = NoResult

NextData ==
    \/ DataFullSync("background")
    \/ GetLastFullSyncResultRejected("background") /\ UNCHANGED dataVars
    \/ SetInProgress("background") /\ UNCHANGED dataVars
    \/ ShouldSync("background") /\ UNCHANGED dataVars
    \/ DataSyncBrowserBookmarksToLocalDb("background")
    \/ DataCallFullSyncAPI("background")
    \/ DataReconcile("background")
    \/ Tick /\ UNCHANGED dataVars

SpecData == InitData /\ [][NextData]_vars

\* A forced pass of the options page on the cache, the native store and the
\* server, from what an earlier session left.
NextForced ==
    \/ DataForceFullSync("options")
    \/ GetLastFullSyncResultRejected("options") /\ UNCHANGED dataVars
    \/ SetInProgress("options") /\ UNCHANGED dataVars
    \/ DataSyncBrowserBookmarksToLocalDb("options")
    \/ DataCallFullSyncAPI("options")
    \/ DataReconcile("options")
    \/ Tick /\ UNCHANGED dataVars

SpecForced == InitData /\ [][NextForced]_vars

\* A session of the background page: the passes of SpecData run, the user
\* edits the native store, and the browser calls the listeners.  It starts
\* from the installation of the extension (the cache is empty) or from what
\* an earlier session left of a native store of at most one bookmark.
InitSession ==
    /\ InitData
    /\ cache = EmptyCache \/ Cardinality(DOMAIN native) <= 1

NextSession ==
    \/ NextData
    \/ \E url \in UrlStrings, title \in Titles : UserCreates(url, title)
    \/ \E id \in DOMAIN native, url \in UrlStrings, title \in Titles :
          UserChanges(id, url, title)
    \/ \E id \in DOMAIN native : UserRemoves(id)
    \/ \E id \in DOMAIN native : UserMoves(id)
    \/ CreatedListener
    \/ ChangeListener
    \/ RemovedListener
    \/ MovedListener
    \/ CallSyncAPIReturns

SpecSession == InitSession /\ [][NextSession]_vars

\* The background page once its initial pass has succeeded: the
\* configuration is stored, the listeners are registered, the cache is the
\* native->cache reconciliation of a native store of at most one bookmark.
\* The periodic alarm starts the next pass while the user edits the native
\* store and the listeners run.
InitPeriodic ==
    /\ storage = setLastFullSyncResult(Configured, EndStatus(1))
    /\ now = 1
    /\ listenersEnabled = [p \in Pages |-> p = "background"]
    /\ pc = [p \in Pages |-> "idle"]
    /\ force = [p \in Pages |-> FALSE]
    /\ oldStatus = [p \in Pages |-> SyncResult(Never, Epoch)]
    /\ status = [p \in Pages |-> SyncResult(Never, Epoch)]
    /\ cause = [p \in Pages |-> "none"]
    /\ settled = [p \in Pages |-> "none"]
    /\ result = [p \in Pages |-> NoResult]
    /\ before = [p \in Pages |-> SyncResult(Never, Epoch)]
    /\ alone = [p \in Pages |-> FALSE]
    /\ calls = 0
    /\ registered = [p \in Pages |->
                        [h \in Handlers |->
                            IF p = "background" THEN 1 ELSE 0]]
    /\ \E e \in EarlierSynced :
          /\ Cardinality(DOMAIN e.native) <= 1
          /\ cache = e.cache
          /\ native = e.native
    /\ nextId = 3
    /\ event = NoEvent
    /\ response = NoResponse
    /\ sent = 0
    /\ thrown = NoError
    /\ handled = NoHandler
    /\ edits = 0
    /\ posted = NoBody
    /\ ClientIdle
    /\ a = DefaultBookmark
    /\ b = DefaultBookmark
    /\ op = "none"
    /\ r = NoResult

SpecPeriodic == InitPeriodic /\ [][NextSession]_vars

----------------------------------------------------------------------------
(* Properties of the value objects, under SpecMerge *)

Lengths(x) == Len(x.title) + Len(x.description)

SameUrl == QuarchiveURL_equals(a.url, b.url)

\* the record the merge rule names: later updated, then longer
\* title + description, then the first argument
Winner ==
    IF a.updated.t > b.updated.t THEN a
    ELSE IF b.updated.t > a.updated.t THEN b
    ELSE IF Lengths(a) > Lengths(b) THEN a
    ELSE IF Lengths(b) > Lengths(a) THEN b
    ELSE a

ContentFrom(x, w) ==
    /\ x.title = w.title
    /\ x.description = w.description
    /\ x.deleted = w.deleted
    /\ x.unread = w.unread
    /\ x.browserId = w.browserId

Min(x, y) == IF x < y THEN x ELSE y
Max(x, y) == IF x > y THEN x ELSE y

\* C1: merge(a, b) takes title, description, deleted, unread and nativeId
\* from one record: the one with the strictly greater updated, on a tie the
\* one with the greater title.length + description.length, on a further tie a.
C1_MergeTakesContentFromWinner ==
    (op = "merge" /\ SameUrl) => ContentFrom(r, Winner)

\* a full tie between records of different content was merged
C1_Witness ==
    /\ op = "merge"
    /\ SameUrl
    /\ a.updated.t = b.updated.t
    /\ Lengths(a) = Lengths(b)
    /\ a.title # b.title
    /\ a.deleted # b.deleted
    /\ ContentFrom(r, a)

\* C2: merge(a, b).created is min(a.created, b.created) and
\* merge(a, b).updated is max(a.updated, b.updated), whoever wins on content.
C2_MergeCreatedMinUpdatedMax ==
    (op = "merge" /\ SameUrl) =>
        /\ r.created.t = Min(a.created.t, b.created.t)
        /\ r.updated.t = Max(a.updated.t, b.updated.t)

\* the winner on content was created later than the loser
C2_Witness ==
    /\ op = "merge"
    /\ SameUrl
    /\ a.updated.t > b.updated.t
    /\ a.created.t > b.created.t
    /\ r.created.t = b.created.t
    /\ r.title = a.title

\* C3: merge is idempotent: merge(x, x).equals(x) for every bookmark x.
C3_MergeIdempotent ==
    op = "mergeSelf" => r = TRUE

\* a bookmark whose created and updated differ was merged with itself
C3_Witness ==
    /\ op = "mergeSelf"
    /\ a.created.t # a.updated.t
    /\ r = TRUE

SameValues(x, y) ==
    /\ QuarchiveURL_equals(x.url, y.url)
    /\ x.title = y.title
    /\ x.description = y.description
    /\ x.created.t = y.created.t
    /\ x.updated.t = y.updated.t
    /\ x.deleted = y.deleted
    /\ x.unread = y.unread
    /\ x.browserId = y.browserId

\* C4 as stated: merge(a, b) and merge(b, a) have the same value in every
\* field.
C4_MergeCommutative ==
    (op = "mergeBothWays" /\ SameUrl) => SameValues(r[1], r[2])

FullTie == a.updated.t = b.updated.t /\ Lengths(a) = Lengths(b)

\* C4 (amended): merge(a, b) and merge(b, a) always agree on created and
\* updated, and agree on every field unless a and b tie on updated and on
\* title.length + description.length; on such a tie each result carries the
\* content of its own first argument.
C4_MergeCommutativeUnlessTied ==
    (op = "mergeBothWays" /\ SameUrl) =>
        /\ r[1].created.t = r[2].created.t
        /\ r[1].updated.t = r[2].updated.t
        /\ ~FullTie => SameValues(r[1], r[2])
        /\ FullTie => ContentFrom(r[1], a) /\ ContentFrom(r[2], b)

\* two records of different content that tie on updated only were merged
\* both ways
C4_Witness ==
    /\ op = "mergeBothWays"
    /\ SameUrl
    /\ a.updated.t = b.updated.t
    /\ Lengths(a) # Lengths(b)
    /\ a.deleted # b.deleted
    /\ SameValues(r[1], r[2])

\* C5: merge of two bookmarks whose URLs differ raises an error instead of
\* returning a merged record.
C5_MergeMismatchedUrlsFails ==
    (op = "merge" /\ ~SameUrl) => "error" \in DOMAIN r

\* C6: equals(a, b) is true exactly when a and b have equal values in every
\* attribute, the timestamps compared by the instant they denote.
C6_EqualsIsFieldwise ==
    op = "equals" => (r <=> SameValues(a, b))

----------------------------------------------------------------------------
(* Properties of the full-sync state machine, under Spec *)

Persisted == getLastFullSyncResult(storage)

\* page p's pass ends in this step, because of c
Ends(p, c) == Busy(p) /\ pc'[p] = "idle" /\ cause'[p] = c

\* C7 as stated: while nothing is stored the status is Never at the epoch,
\* and every change of the persisted status is Never, Successful or Failed
\* -> InProgress, or InProgress -> Successful, or InProgress -> Failed.
C7_StatusStateMachine ==
    [][/\ "lastFullSyncResult" \notin DOMAIN storage
            => Persisted = SyncResult(Never, Epoch)
       /\ Persisted'.status # Persisted.status =>
            \/ /\ Persisted.status \in {Never, Successful, Failed}
               /\ Persisted'.status = InProgress
            \/ /\ Persisted.status = InProgress
               /\ Persisted'.status \in {Successful, Failed}]_vars

\* C7 (amended): while nothing is stored the status is Never at the epoch.
\* Every change of the persisted record is either the write of InProgress at
\* the start of a pass, from any status, or the write at the end of a pass
\* of Successful, of Failed or, when the configuration is missing, of the
\* record the pass read at its start; the write at the end is made from
\* InProgress unless another pass overlapped.
C7_StatusChanges ==
    [][/\ "lastFullSyncResult" \notin DOMAIN storage
            => Persisted = SyncResult(Never, Epoch)
       /\ Persisted' # Persisted =>
            \/ \E p \in Pages :
                /\ pc[p] = "getLastFullSyncResult"
                /\ Busy(p)'
                /\ pc'[p] # pc[p]
                /\ Persisted' = SyncResult(InProgress, now)
            \/ \E p \in Pages :
                /\ \/ Ends(p, "successful")
                      /\ Persisted' = SyncResult(Successful, now)
                   \/ Ends(p, "failed")
                      /\ Persisted' = SyncResult(Failed, now)
                   \/ Ends(p, "noConfiguration")
                      /\ Persisted' = before[p]
                /\ alone[p] => Persisted.status = InProgress]_vars

\* a pass has entered InProgress from Failed
C7_Witness ==
    \E p \in Pages :
        /\ Busy(p)
        /\ pc[p] # "getLastFullSyncResult"
        /\ alone[p]
        /\ before[p].status = Failed
        /\ Persisted.status = InProgress

\* C8: an unforced pass that the should-sync check turns away leaves the
\* persisted record, status and timestamp, as it was before the call.
C8_SkipLeavesRecord ==
    [][\A p \in Pages : Ends(p, "skipped") => Persisted' = before[p]]_vars

\* C9: a pass that meets an error other than NoConfigurationError ends with
\* the persisted status Failed.
C9_ErrorEndsFailed ==
    [][\A p \in Pages : Ends(p, "failed") => Persisted'.status = Failed]_vars

\* a forced pass has ended on an error after InProgress was persisted
C9_Witness ==
    \E p \in Pages :
        /\ pc[p] = "idle"
        /\ cause[p] = "failed"
        /\ force[p]
        /\ Persisted = result[p]
        /\ Persisted.status = Failed

\* C10: a pass that meets NoConfigurationError leaves the persisted record
\* as it was before the call, and the call resolves.
C10_NoConfigurationRestores ==
    [][\A p \in Pages : Ends(p, "noConfiguration") =>
            /\ Persisted' = before[p]
            /\ settled'[p] = "resolved"]_vars

\* a pass without configuration has restored a Failed record
C10_Witness ==
    \E p \in Pages :
        /\ pc[p] = "idle"
        /\ cause[p] = "noConfiguration"
        /\ settled[p] = "resolved"
        /\ before[p].status = Failed
        /\ Persisted = before[p]

----------------------------------------------------------------------------
(* Properties of a pass on the cache, the native store and the server,      *)
(* under SpecData                                                          *)

BG == "background"

\* the request got no usable answer: fetch was rejected, the status is not
\* OK, or a line of the body is not JSON
BadAnswer(resp) ==
    \/ resp.kind = "network error"
    \/ /\ resp.kind = "http"
       /\ \/ ~resp.ok
          \/ \E i \in 1..Len(resp.body) : resp.body[i] = NotJSON

\* the pass of the background page gets the answer to its full-sync request
Answered == pc[BG] = "callFullSyncAPI" /\ sent' = sent + 1

\* C11: when the full-sync request fails at the network level, is answered
\* with a non-OK status or with a malformed body, the pass ends with Failed
\* persisted, nothing is written to the cache or the native store, and the
\* request was sent once.
C11_FailedRequestEndsFailed ==
    [][(Answered /\ BadAnswer(response')) =>
          /\ pc'[BG] = "idle"
          /\ cause'[BG] = "failed"
          /\ Persisted'.status = Failed
          /\ cache' = cache
          /\ native' = native
          /\ sent' = 1]_vars

\* the URL strings of the universe whose scheme is http or https
HttpUrls ==
    {u \in UrlStrings : SubSeq(u, 1, 7) = "http://"
                           \/ SubSeq(u, 1, 8) = "https://"}

\* the cache record the reconciliation builds from native bookmark id
FreshRecord(id) ==
    [url |-> native[id].url,
     idbKey |-> native[id].url,
     title |-> native[id].title,
     description |-> "",
     created |-> Date_toJSON(native[id].dateAdded),
     updated |-> Date_toJSON(native[id].dateAdded),
     deleted |-> FALSE,
     unread |-> FALSE,
     browserId |-> id]

\* the pass of the background page runs its native->cache reconciliation
NativeToCache ==
    /\ pc[BG] = "syncBrowserBookmarksToLocalDb"
    /\ pc'[BG] # "syncBrowserBookmarksToLocalDb"

\* C15: native->cache reconciliation of a native bookmark whose URL has an
\* allowed scheme and no cache record inserts one cache record for that URL,
\* built from the native bookmark: its title, an empty description, created
\* = updated = its dateAdded, deleted = false, unread = false, nativeId =
\* its id.  (When several native bookmarks share the URL the record is built
\* from one of them.)
C15_NativeInsertsFreshRecord ==
    [][NativeToCache =>
          \A id \in DOMAIN native :
              (native[id].url \in HttpUrls
                  /\ native[id].url \notin DOMAIN cache) =>
                  /\ native[id].url \in DOMAIN cache'
                  /\ \E j \in DOMAIN native :
                        /\ native[j].url = native[id].url
                        /\ cache'[native[id].url] = FreshRecord(j)]_vars

\* C17: a DisallowedSchemeError is never surfaced as a failure: whether it
\* is raised for a native bookmark or for a record the server returned, that
\* entry alone is skipped and the pass does not end Failed because of it.
C17_DisallowedSchemeNeverFails ==
    ~(cause[BG] = "failed" /\ thrown = DisallowedSchemeError)

\* the pass of the background page runs its server->cache->native
\* reconciliation
ServerToCache ==
    /\ pc[BG] = "reconcile"
    /\ pc'[BG] # "reconcile"

\* the records the reconciliation is given
Returned == callFullSyncAPI(response).bookmarks

\* the server returned one record for the URL of Returned[i]
ReturnedOnce(i) ==
    \A j \in 1..Len(Returned) :
        QuarchiveURL_toString(Returned[j].url)
            = QuarchiveURL_toString(Returned[i].url) => j = i

\* C18: when the cache holds a record A for a URL and the server returns A'
\* for the same URL with A'.updated > A.updated, then after the
\* server->cache->native reconciliation the cache record has the title,
\* description, deleted and unread of A', updated = A'.updated, created =
\* min(A.created, A'.created) and the nativeId of A.
C18_NewerServerRecordWins ==
    [][ServerToCache =>
          \A i \in 1..Len(Returned) :
              \A A \in lookupBookmarkFromLocalDbByUrl(cache, Returned[i].url) :
                  (ReturnedOnce(i) /\ Returned[i].updated.t > A.updated.t) =>
                      \E rec \in lookupBookmarkFromLocalDbByUrl(
                                   cache', Returned[i].url) :
                          /\ rec.title = Returned[i].title
                          /\ rec.description = Returned[i].description
                          /\ rec.deleted = Returned[i].deleted
                          /\ rec.unread = Returned[i].unread
                          /\ rec.updated.t = Returned[i].updated.t
                          /\ rec.created.t
                                = Min(A.created.t, Returned[i].created.t)
                          /\ rec.browserId = A.browserId]_vars

\* a pass has ended after the server returned a newer record of a bookmark
\* the cache held, created before the native bookmark was
C18_Witness ==
    /\ pc[BG] = "idle"
    /\ calls = 1
    /\ response.kind = "http"
    /\ ~Raised(callFullSyncAPI(response))
    /\ Len(Returned) = 1
    /\ \E rec \in lookupBookmarkFromLocalDbByUrl(cache, Returned[1].url) :
          /\ rec.browserId # Null
          /\ rec.title = "s"
          /\ rec.updated.t = 2
          /\ rec.created.t = 0
          /\ Returned[1].updated.t = 2
          /\ Returned[1].created.t = 0

\* the pass of the background page sends its full-sync request
Sends == sent' = sent + 1

\* every native bookmark is reconciled into cache c: walking the native
\* store again, in some order, finds nothing to insert or to refresh
Reconciled(c, n) ==
    \E o \in Orders(DOMAIN n) :
        syncBrowserBookmarksToLocalDb(c, n, o) = [cache |-> c, threw |-> NoError]

\* C25: within one full-sync pass the three phases are strictly sequential:
\* every native entry has been reconciled into the cache before the
\* full-sync request is sent, and the server's response has been fully
\* received before the first server record is reconciled into the cache or
\* native store; the request body contains every cache record as it stands
\* after native->cache reconciliation.
C25_PhasesSequential ==
    [][/\ NativeToCache => sent = 0 /\ sent' = 0 /\ response' = NoResponse
       /\ Sends =>
             /\ pc[BG] = "callFullSyncAPI"
             /\ sent = 0
             /\ Reconciled(cache, native)
             /\ posted' =
                   {JSON_stringify(Bookmark_to_json(Bookmark_from_json(cache[k], 1))) :
                       k \in DOMAIN cache}
             /\ cache' = cache /\ native' = native
       /\ ServerToCache =>
             /\ sent = 1 /\ sent' = 1
             /\ response.kind = "http" /\ response' = response
             /\ posted' = posted
       /\ (native' # native \/ (cache' # cache /\ ~NativeToCache)) =>
             ServerToCache]_vars

\* a pass has sent two cache records and its third phase has changed the
\* cache and the native store
C25_Witness ==
    /\ pc[BG] = "idle"
    /\ cause[BG] = "successful"
    /\ sent = 1
    /\ Cardinality(posted) = 2
    /\ response.kind = "http"
    /\ Len(response.body) = 1
    /\ \E k \in DOMAIN cache : cache[k].title = "s"
    /\ \E id \in DOMAIN native : native[id].title = "s"

\* the merge of cached record A with server record S, with the nativeId of A
\* put back, has in every field the value A has
MergeChangesNothing(A, S) ==
    Bookmark_to_db_json([Bookmark_merge(A, S) EXCEPT !.browserId = A.browserId])
        = Bookmark_to_db_json(A)

\* C27: in server->cache->native reconciliation, a server record whose merge
\* with the cached record yields a result equal in every field to the cached
\* record (for instance when the server returns exactly what the cache
\* holds) causes no cache write and no native-store create or update: when
\* every record of the answer is such a record, the cache and the native
\* store are as they were and no cache or native-store call has failed.
C27_EqualMergeWritesNothing ==
    [][(/\ ServerToCache
        /\ \A i \in 1..Len(Returned) :
              \E A \in lookupBookmarkFromLocalDbByUrl(cache, Returned[i].url) :
                  MergeChangesNothing(A, Returned[i])) =>
          /\ cache' = cache
          /\ native' = native
          /\ nextId' = nextId
          /\ thrown' = NoError]_vars

\* the native bookmarks of the page the cache keys by k
NodesOf(k) == {id \in DOMAIN native : native[id].url = k}

AfterRecords(i) ==
    serverToCacheToNative(cache, native, nextId, SubSeq(Returned, 1, i), now)

\* C29: a record returned by the server whose URL has no cache record is
\* inserted into the cache unchanged with nativeId = null and, when it is
\* not deleted, exactly one native bookmark is created for it; when it is
\* deleted no native-store call is made for it.
C29_NewServerRecordInserted ==
    [][ServerToCache =>
          /\ cache' = AfterRecords(Len(Returned)).cache
          /\ native' = AfterRecords(Len(Returned)).native
          /\ \A i \in 1..Len(Returned) :
                LET S == Returned[i]
                    k == QuarchiveURL_toString(S.url)
                    was == AfterRecords(i - 1)
                    is == AfterRecords(i)
                IN (was.threw = NoError /\ k \notin DOMAIN was.cache) =>
                      /\ is.threw = NoError
                      /\ DOMAIN is.cache = (DOMAIN was.cache) \cup {k}
                      /\ \A j \in DOMAIN was.cache : is.cache[j] = was.cache[j]
                      /\ is.cache[k].browserId = Null
                      /\ is.cache[k].idbKey = k
                      /\ Bookmark_to_json(Bookmark_from_json(is.cache[k], 1))
                            = response.body[i].value
                      /\ S.deleted =>
                            is.native = was.native /\ is.nextId = was.nextId
                      /\ ~S.deleted =>
                            /\ is.nextId = was.nextId + 1
                            /\ DOMAIN is.native = (DOMAIN was.native)
                                                  \cup {ToString(was.nextId)}
                            /\ ToString(was.nextId) \notin DOMAIN was.native
                            /\ \A id \in DOMAIN was.native :
                                  is.native[id] = was.native[id]
                            /\ is.native[ToString(was.nextId)].url = k
                            /\ is.native[ToString(was.nextId)].title = S.title]_vars

\* a pass has inserted a record the server returned, live, for a page the
\* cache did not know and has created its native bookmark
C29_Witness ==
    /\ pc[BG] = "idle"
    /\ cause[BG] = "successful"
    /\ response.kind = "http"
    /\ Len(response.body) = 1
    /\ \E k \in DOMAIN cache :
          /\ cache[k].browserId = Null
          /\ ~cache[k].deleted
          /\ "3" \in DOMAIN native
          /\ native["3"].url = k
          /\ native["3"].title = cache[k].title

----------------------------------------------------------------------------
(* Properties of the listeners, under Spec                                  *)

AllRegistered(reg, p) == \A h \in Handlers : reg[p][h] >= 1

\* C12: whenever a call of fullSync returns - after a successful pass, a
\* failed one, a skipped one or one without configuration - the page's
\* listeners are enabled: the flag is true and the four handlers are
\* registered.
C12_ReturnEnablesListeners ==
    [][\A p \in Pages :
          (Busy(p) /\ pc'[p] = "idle" /\ settled'[p] = "resolved") =>
              /\ cause'[p] \in {"successful", "failed", "skipped",
                                "noConfiguration"}
              /\ listenersEnabled'[p]
              /\ AllRegistered(registered', p)]_vars

\* the options page returned from a pass without configuration, the
\* background page from a successful one, and both have their listeners
C12_Witness ==
    /\ pc[BG] = "idle"
    /\ cause[BG] = "successful"
    /\ cause["options"] = "noConfiguration"
    /\ \A p \in Pages : listenersEnabled[p] /\ AllRegistered(registered, p)

\* C13: every handler is registered at most once, the flag is true exactly
\* when the four handlers are registered, and a call that finds the flag
\* already at its target (enableListeners when enabled, disableListeners
\* when disabled) changes no registration.
C13_ListenersIdempotent ==
    [][\A p \in Pages :
          /\ \A h \in Handlers : registered'[p][h] <= 1
          /\ listenersEnabled'[p] <=>
                 (\A h \in Handlers : registered'[p][h] = 1)
          /\ listenersEnabled'[p] <=>
                 (\E h \in Handlers : registered'[p][h] >= 1)
          /\ (listenersEnabled'[p] = listenersEnabled[p]) =>
                 registered'[p] = registered[p]]_vars

\* the background page returned from a skipped pass, its second call: the
\* enableListeners of that pass found the listeners enabled by the first
C13_Witness ==
    /\ calls = 2
    /\ settled["options"] = "none"
    /\ pc[BG] = "idle"
    /\ cause[BG] = "skipped"
    /\ before[BG].status # Never
    /\ listenersEnabled[BG]
    /\ \A h \in Handlers : registered[BG][h] = 1

----------------------------------------------------------------------------
(* Properties of the listeners and of a session, under SpecSession          *)

\* C14: no operation is fatal: no call of fullSync and no run of a listener
\* ends in a rejected promise or an uncaught exception, whatever the cache
\* holds and whatever the storage, the native store and the network do.
C14_NothingRejects ==
    /\ settled[BG] # "rejected"
    /\ handled.stage # "rejected"

\* the ids of the native bookmarks with an http or https URL
HttpNodes == {id \in DOMAIN native : native[id].url \in HttpUrls}

\* createdListener runs for a native bookmark whose URL is not http(s)
CreatedDisallowed ==
    /\ event.type = "onCreated"
    /\ event' # event
    /\ event.id \in DOMAIN native
    /\ native[event.id].url \notin HttpUrls

\* C16: a native bookmark whose URL scheme is not http or https is skipped
\* by native->cache reconciliation and by the created handler: nothing is
\* written to the cache for it, no request is sent for it, the
\* reconciliation treats the other bookmarks as if it were not there, and
\* every record in the cache has an http or https URL.
C16_DisallowedSchemesSkipped ==
    [][/\ \A k \in DOMAIN cache' :
             k \in HttpUrls /\ cache'[k].url \in HttpUrls
       /\ NativeToCache =>
             /\ sent' = sent
             /\ \E o \in Orders(HttpNodes) :
                   /\ cache'
                        = syncBrowserBookmarksToLocalDb(cache, native, o).cache
                   /\ thrown'
                        = syncBrowserBookmarksToLocalDb(cache, native, o).threw
       /\ CreatedDisallowed =>
             /\ cache' = cache
             /\ handled'.stage = "resolved"
             /\ handled'.requests = <<>>]_vars

\* the created handler has skipped an FTP bookmark, and the reconciliation
\* before it wrote the record of the http bookmark and none for an FTP one
C16_Witness ==
    /\ handled.handler = "createdListener"
    /\ handled.stage = "resolved"
    /\ handled.threw = DisallowedSchemeError
    /\ handled.requests = <<>>
    /\ \E i \in (DOMAIN native) \ HttpNodes : i # handled.browserId
    /\ \E j \in HttpNodes :
          native[j].url \in DOMAIN cache /\ cache[native[j].url].browserId = j
    /\ \A k \in DOMAIN cache : k \in HttpUrls

\* removedListener runs on the event the browser fired
Removed ==
    /\ event.type = "onRemoved"
    /\ event' = NoEvent

\* the keys of the cache records whose nativeId is the id of the event
Held == {k \in DOMAIN cache : cache[k].browserId = event.id}

\* the cache record under key k is marked deleted, detached and updated now
MarkedDeleted(k) ==
    /\ k \in DOMAIN cache'
    /\ cache'[k].deleted = TRUE
    /\ cache'[k].browserId = Null
    /\ cache'[k].updated = Date_toJSON(now)
    /\ cache'[k] = [cache[k] EXCEPT !.deleted = TRUE, !.browserId = Null,
                                    !.updated = Date_toJSON(now)]

\* one single-record sync request carrying the JSON of the record under k
SentRecord(k) ==
    handled'.requests =
        <<[path |-> "/api/sync",
           body |-> <<JSON_stringify(
                        Bookmark_to_json(Bookmark_from_json(cache'[k], 1)))>>]>>

\* C19 as stated: a removed event for native id X, when the cache holds a
\* record with nativeId X, leaves that record in the cache with deleted =
\* true, nativeId = null and updated set to the current time, and then sends
\* one single-record sync request to the server carrying that record's JSON.
C19_RemovedMarksAndSends ==
    [][Removed => \A k \in Held : MarkedDeleted(k) /\ SentRecord(k)]_vars

\* C19 amended: the record is marked in every case; the request is sent
\* when the server configuration is stored, and no request is sent when it
\* is not.
C19_RemovedMarksAndSendsIfConfigured ==
    [][Removed =>
          \A k \in Held :
              /\ MarkedDeleted(k)
              /\ HasConfiguration(storage) => SentRecord(k)
              /\ ~HasConfiguration(storage) => handled'.requests = <<>>]_vars

\* removedListener has marked a record and awaits the answer to its request
C19_Witness ==
    /\ handled.handler = "removedListener"
    /\ handled.stage = "awaiting"
    /\ Len(handled.requests) = 1
    /\ \E k \in DOMAIN cache :
          /\ cache[k].deleted = TRUE
          /\ cache[k].browserId = Null
          /\ handled.requests[1].body =
                <<JSON_stringify(
                    Bookmark_to_json(Bookmark_from_json(cache[k], 1)))>>

\* the answer to the request of a listener arrives and the listener ends
Returns ==
    /\ handled.stage = "awaiting"
    /\ handled'.stage # "awaiting"

\* the records the answer carries, when it can be read
Merged ==
    IF Raised(callSyncAPI(handled'.response)) THEN <<>>
    ELSE callSyncAPI(handled'.response).bookmarks

\* the cache holds bookmark bm as the record of its URL
InCache(c, bm) ==
    \E found \in lookupBookmarkFromLocalDbByUrl(c, bm.url) :
        Bookmark_to_json(found) = Bookmark_to_json(bm)

\* the native store shows bookmark bm (a deleted bookmark is not shown)
InNative(n, bm) ==
    bm.deleted \/ \E id \in DOMAIN n :
                     /\ n[id].url = QuarchiveURL_toString(bm.url)
                     /\ n[id].title = bm.title

\* C20: after a created, changed or removed event has pushed its single
\* record to the server, if the server's response carries a merged record
\* for that URL that differs from the pushed record, that merged record is
\* written to the cache and upserted into the native store.
C20_MergedRecordApplied ==
    [][Returns =>
          \A i \in 1..Len(Merged) :
              (/\ handled.handler \in {"createdListener", "changeListener",
                                       "removedListener"}
               /\ QuarchiveURL_toString(Merged[i].url)
                     = handled.pushed[1].url
               /\ Bookmark_to_json(Merged[i]) # handled.pushed[1]
               /\ \A j \in 1..Len(Merged) :
                     QuarchiveURL_toString(Merged[j].url)
                         = handled.pushed[1].url
                         => Bookmark_to_json(Merged[j]) = handled.pushed[1]
                            \/ j = i) =>
                  /\ InCache(cache', Merged[i])
                  /\ InNative(native', Merged[i])]_vars

\* C21: across any sequence and interleaving of full-sync passes and native
\* events, each cache record's created never increases and its updated never
\* decreases, and its URL never changes.
C21_TimestampsMonotone ==
    [][\A k \in (DOMAIN cache) \cap (DOMAIN cache') :
          /\ cache'[k].created[2] <= cache[k].created[2]
          /\ cache'[k].updated[2] >= cache[k].updated[2]
          /\ cache'[k].url = cache[k].url]_vars

\* C22: a bookmark record is never removed from the cache: once a URL has a
\* cache record, every later state reached by full-sync passes and native
\* events still has a record for that URL (deletion only sets deleted =
\* true).
C22_RecordsNeverRemoved ==
    [][\A k \in DOMAIN cache :
          /\ k \in DOMAIN cache'
          /\ cache'[k].idbKey = k]_vars

\* removedListener has run to its end on a bookmark the cache held beside
\* another: both records are there, one of them marked deleted
C22_Witness ==
    /\ handled.handler = "removedListener"
    /\ handled.stage = "resolved"
    /\ handled.threw = NoError
    /\ Cardinality(DOMAIN cache) = 2
    /\ \E k \in DOMAIN cache : cache[k].deleted /\ cache[k].browserId = Null

----------------------------------------------------------------------------
(* Properties of getClientID, under SpecClientID                           *)

\* C23: the per-install client identifier is minted once: across any
\* sequence and interleaving of getClientID calls (including two calls that
\* both start before either has stored a value), at most one identifier is
\* ever written to storage and every call returns that same identifier.
C23_ClientIDMintedOnce ==
    /\ Len(written) <= 1
    /\ Cardinality(returned) <= 1
    /\ \A i \in 1..Len(written) : returned \subseteq {written[i]}

----------------------------------------------------------------------------
(* Properties of the listeners during a pass, under Spec                   *)

\* the page's pass is in one of its three phases
InPhases(p) ==
    pc[p] \in {"syncBrowserBookmarksToLocalDb", "callFullSyncAPI",
               "reconcile"}

\* C24: in a full-sync pass that is not skipped, the native-store listeners
\* are disabled before native->cache reconciliation begins and stay disabled
\* until the end of the pass, so no incremental event handler is started
\* between the start of native->cache reconciliation and the end of the
\* pass.
C24_ListenersOffDuringPass ==
    \A p \in Pages :
        InPhases(p) =>
            /\ ~listenersEnabled[p]
            /\ \A h \in Handlers : registered[p][h] = 0

----------------------------------------------------------------------------
(* Properties of createdListener, under SpecSession                        *)

\* createdListener runs on the event of a native bookmark whose URL has an
\* allowed scheme
CreatedAllowed ==
    /\ event.type = "onCreated"
    /\ event' = NoEvent
    /\ event.id \in DOMAIN native
    /\ native[event.id].url \in HttpUrls

\* the record createdListener is to persist: the bookmark built from the
\* native entry, merged with the record of its URL when the cache has one
CreatedRecord ==
    LET k == native[event.id].url
        new == Bookmark_from_json(FreshRecord(event.id), 3)
    IN IF k \in DOMAIN cache
       THEN Bookmark_to_db_json(
                Bookmark_merge(new, Bookmark_from_json(cache[k], 1)))
       ELSE FreshRecord(event.id)

\* the cache after createdListener: the record of the URL is CreatedRecord
\* and the other records are as they were
CreatedPersisted ==
    /\ DOMAIN cache' = (DOMAIN cache) \cup {native[event.id].url}
    /\ \A k \in DOMAIN cache' :
          cache'[k] = IF k = native[event.id].url THEN CreatedRecord
                      ELSE cache[k]

\* one single-record sync request carrying the record persisted
CreatedPushed ==
    handled'.requests =
        <<[path |-> "/api/sync",
           body |-> <<JSON_stringify(
                        Bookmark_to_json(
                            Bookmark_from_json(
                                cache'[native[event.id].url], 1)))>>]>>

\* C30 as stated: a created event for an allowed-scheme URL builds a
\* bookmark from the native entry (created = updated = dateAdded, deleted =
\* false, nativeId = the native id); if the cache already has a record for
\* that URL the cache record becomes merge(new, existing), otherwise the new
\* bookmark is inserted; in both cases exactly that persisted record is then
\* pushed to the server as a single-record sync.
C30_CreatedPersistsAndPushes ==
    [][CreatedAllowed => CreatedPersisted /\ CreatedPushed]_vars

\* C30 amended: the record is persisted in every case; it is pushed when the
\* server configuration is stored, and nothing is sent when it is not.
C30_CreatedPersistsAndPushesIfConfigured ==
    [][CreatedAllowed =>
          /\ CreatedPersisted
          /\ HasConfiguration(storage) => CreatedPushed
          /\ ~HasConfiguration(storage) => handled'.requests = <<>>]_vars

\* createdListener has merged the bookmark the user made at instant 2 into
\* the record the cache had of its page since instant 1, and awaits the
\* answer to its request
C30_Witness ==
    /\ handled.handler = "createdListener"
    /\ handled.stage = "awaiting"
    /\ Len(handled.requests) = 1
    /\ handled.browserId \in DOMAIN native
    /\ native[handled.browserId].dateAdded = 2
    /\ native[handled.browserId].url \in DOMAIN cache
    /\ LET rec == cache[native[handled.browserId].url]
       IN /\ rec.created = Date_toJSON(1)
          /\ rec.updated = Date_toJSON(2)
          /\ rec.browserId = handled.browserId

----------------------------------------------------------------------------
(* Properties of a listener that runs while a pass does, under SpecPeriodic *)

\* the record a listener stored before its request, in the form it pushed
LastStored == handled.pushed[1]

\* C26: the cache is never mutated concurrently by two logical operations:
\* there is no reachable state in which an event handler and a full-sync
\* pass, or two event handlers, are both between their first cache read and
\* their last cache write for the same record, so no operation writes back
\* a record it read before another operation's write (no lost update): the
\* record a listener overwrites with the server's answer is the record it
\* stored before its request.
C26_NoLostUpdate ==
    [][(Returns /\ cache' # cache) =>
          /\ LastStored.url \in DOMAIN cache
          /\ Bookmark_to_json(Bookmark_from_json(cache[LastStored.url], 1))
                = LastStored]_vars

----------------------------------------------------------------------------
(* Properties of changeListener, under SpecSession                         *)

\* changeListener runs on the event of a native bookmark whose id a cache
\* record holds
ChangedHeld ==
    /\ event.type = "onChanged"
    /\ event' = NoEvent
    /\ event.id \in DOMAIN native
    /\ Held # {}

\* the record under key k has the title of the native entry and updated set
\* to the current time, its other fields are as they were, and so are the
\* other records
ChangedPersisted(k) ==
    /\ DOMAIN cache' = DOMAIN cache
    /\ cache'[k].title = native[event.id].title
    /\ cache'[k].updated = Date_toJSON(now)
    /\ \A f \in {"url", "description", "created", "deleted", "unread",
                 "browserId", "idbKey"} : cache'[k][f] = cache[k][f]
    /\ \A j \in (DOMAIN cache) \ {k} : cache'[j] = cache[j]

\* C31 as stated: a changed event for native id X, when the cache holds a
\* record with nativeId X, sets that record's title to the native entry's
\* current title and its updated to the current time, leaves its url,
\* description, created, deleted, unread and nativeId unchanged, persists
\* it, and then pushes exactly that record to the server as a single-record
\* sync.
C31_ChangedPersistsAndPushes ==
    [][ChangedHeld => \A k \in Held : ChangedPersisted(k) /\ SentRecord(k)]_vars

\* C31 amended: the record is persisted in every case; it is pushed when the
\* server configuration is stored, and nothing is sent when it is not.
C31_ChangedPersistsAndPushesIfConfigured ==
    [][ChangedHeld =>
          \A k \in Held :
              /\ ChangedPersisted(k)
              /\ HasConfiguration(storage) => SentRecord(k)
              /\ ~HasConfiguration(storage) => handled'.requests = <<>>]_vars

\* changeListener has put the new title of a bookmark and the time of the
\* edit, instant 2, on the record the cache had of it since instant 1, and
\* awaits the answer to its request
C31_Witness ==
    /\ handled.handler = "changeListener"
    /\ handled.stage = "awaiting"
    /\ Len(handled.requests) = 1
    /\ handled.browserId \in DOMAIN native
    /\ \E k \in DOMAIN cache :
          /\ cache[k].browserId = handled.browserId
          /\ cache[k].title = native[handled.browserId].title
          /\ cache[k].title # "x"
          /\ cache[k].created = Date_toJSON(1)
          /\ cache[k].updated = Date_toJSON(2)
          /\ handled.requests[1].body =
                <<JSON_stringify(
                    Bookmark_to_json(Bookmark_from_json(cache[k], 1)))>>

----------------------------------------------------------------------------
(* Properties of a pass that is skipped, under SpecData                    *)

\* the pass of the background page has not gone past its should-sync check
BeforePhases(position) ==
    position["background"] \in {"getLastFullSyncResult", "shouldSync"}

\* the should-sync check of the unforced pass resumes with false
Skips ==
    /\ pc["background"] = "shouldSync"
    /\ ~force["background"]
    /\ cause'["background"] = "skipped"

\* C32: a skipped full-sync pass (unforced, should-sync check false) does
\* nothing else: it does not enumerate the native store, writes nothing to
\* the cache, sends no full-sync request and makes no native-store create or
\* update.  Every step of the pass up to and including the one that skips
\* leaves the cache and the native store as they were, with no request sent.
C32_SkippedPassDoesNothing ==
    [][(BeforePhases(pc') \/ Skips) =>
          /\ cache' = cache
          /\ native' = native
          /\ nextId' = nextId
          /\ sent' = 0
          /\ posted' = NoBody
          /\ response' = NoResponse]_vars

\* a pass was skipped while the native store had a bookmark of a page the
\* cache has no record of
C32_Witness ==
    /\ cause["background"] = "skipped"
    /\ pc["background"] = "idle"
    /\ sent = 0
    /\ \E i \in DOMAIN native :
          native[i].url \in HttpUrls /\ native[i].url \notin DOMAIN cache

----------------------------------------------------------------------------
(* Properties of a pass without configuration, under SpecForced            *)

\* C33: when the server URL, username or API key is not configured, a
\* full-sync pass, forced or unforced, is treated as skipped: it writes
\* nothing to the cache and makes no native-store create or update.  No step
\* taken while the configuration is missing changes the cache or the native
\* store.
C33_NoConfigurationWritesNothing ==
    [][~HasConfiguration(storage) =>
          /\ cache' = cache
          /\ native' = native
          /\ nextId' = nextId]_vars

----------------------------------------------------------------------------
(* Properties of the deleted records of the cache, under SpecData          *)

\* C34: every cache record with deleted = true has nativeId = null, in every
\* state reachable through full-sync passes and native events (including a
\* server tombstone merged into a record that has a native id, and a
\* tombstoned URL that is present again in the native store at the next
\* native->cache reconciliation).
C34_DeletedHasNoNativeId ==
    \A k \in DOMAIN cache : cache[k].deleted => cache[k].browserId = Null

----------------------------------------------------------------------------
(* Properties of the unique index on browserId, under SpecData             *)

\* C35: no cache write ever attempts to store a record whose non-null
\* nativeId is already held by a cache record with a different URL, so the
\* cache's unique index on native id never rejects a write; in particular a
\* native bookmark whose URL was edited in the browser does not make the
\* next full-sync pass fail.  A rejected write ends the pass or the listener
\* with the undefined the cache helpers reject with.
C35_IndexNeverRejects ==
    /\ thrown # Undefined
    /\ handled.threw # Undefined

----------------------------------------------------------------------------
(* Properties of the persisted record between passes, under Spec           *)

\* C36: whenever no full-sync pass is executing, the persisted status is not
\* InProgress: every pass that terminates (successful, failed, skipped or
\* without configuration) leaves a persisted status in {Never, Successful,
\* Failed}, so the options page's force-sync button, which is disabled while
\* the status is InProgress, is enabled again.
C36_IdleNotInProgress ==
    (\A p \in Pages : ~Busy(p)) =>
        getLastFullSyncResult(storage).status \in {Never, Successful, Failed}

\* C37: the SyncResult returned by fullSync equals the last-sync record that
\* is persisted when the call returns, for every outcome (successful,
\* failed, skipped, no configuration).
C37_ReturnedIsPersisted ==
    [][\A p \in Pages :
          (settled[p] = "pending" /\ settled'[p] = "resolved") =>
              result'[p] = getLastFullSyncResult(storage')]_vars

----------------------------------------------------------------------------
(* Properties of the orchestrator's native writes, under SpecSession       *)

\* a step that changes the native store and is not an edit of the user: a
\* create or an update issued by a pass or by a listener
OrchestratorWritesNative ==
    /\ native' # native
    /\ edits' = edits

\* C38: no create or update issued to the native store by the orchestrator
\* (by a full-sync pass or by an event handler applying a server response)
\* happens while the listeners are enabled, under any interleaving of the
\* startup pass, the periodic timer pass, a forced pass and event handlers;
\* so the orchestrator's own native writes never trigger its event handlers.
C38_NativeWritesWithListenersOff ==
    [][OrchestratorWritesNative =>
          /\ ~listenersEnabled["background"]
          /\ \A h \in Handlers : registered["background"][h] = 0
          /\ event' = NoEvent]_vars

----------------------------------------------------------------------------
(* Properties of the record createdListener leaves, under SpecSession      *)

\* createdListener runs on the event of a native bookmark whose URL has an
\* allowed scheme, and its write to the cache is not rejected
CreatedStores ==
    /\ CreatedAllowed
    /\ handled'.handler = "createdListener"
    /\ handled'.threw = NoError

\* C39: after the created handler completes for a new native bookmark with
\* id N and an allowed-scheme URL, the cache record for that URL has
\* nativeId = N and deleted = false, whatever record the cache held for that
\* URL before (for instance a tombstone whose updated is later than or equal
\* to the new entry's dateAdded).  Stated of the record the handler stores
\* before its request to the server.
C39_CreatedRecordIsLive ==
    [][CreatedStores =>
          LET k == native[event.id].url
          IN /\ k \in DOMAIN cache'
             /\ cache'[k].browserId = event.id
             /\ ~cache'[k].deleted]_vars

----------------------------------------------------------------------------
(* Properties of the titles after a pass, under SpecData                   *)

\* the pass of the background page has ended successfully
PassSucceeded ==
    /\ pc["background"] = "idle"
    /\ cause["background"] = "successful"

\* C40: at the end of a successful full-sync pass with no native events
\* during the pass, every cache record that is not deleted and has a
\* non-null nativeId has the same title as the native bookmark with that id.
C40_TitlesAgreeAfterPass ==
    PassSucceeded =>
        \A k \in DOMAIN cache :
            (/\ ~cache[k].deleted
             /\ cache[k].browserId # Null
             /\ cache[k].browserId \in DOMAIN native) =>
                native[cache[k].browserId].title = cache[k].title

====
